---- MODULE Spec2Model ----
(***************************************************************************)
(* The data-access layer of src/lib/supabase/queries.ts as a state machine *)
(* over the remote store's tables.  Every exported function is a call: an  *)
(* invoking action (which also resolves supabase.auth.getUser()) followed  *)
(* by one action per awaited store query, in the order of the code.  The   *)
(* code between two awaits runs without interruption (single-threaded      *)
(* event loop), so each such action is atomic; the store runs each query   *)
(* atomically.                                                             *)
(***************************************************************************)
EXTENDS Integers, Sequences, FiniteSets, Bags, TLC

VARIABLES
    threads,      \* table "threads": a set of rows
    messages,     \* table "messages"
    attachments,  \* table "file_attachments"
    personas,     \* table "thread_personas": its rows in heap order
    shares,       \* table "shared_threads"
    prefs,        \* table "user_preferences"
    files,        \* the objects of storage bucket "thread-files", by path
    profiles,     \* table "profiles"
    ui,           \* the API key form (src/unnamed/part_000) and the key store it uses
    now,          \* the clock: the latest time new Date() or the store has read
    calls,        \* per client: the call in flight (or the last finished one)
    hist          \* the finished writing calls before those, oldest first

rest == <<personas, shares, prefs, files, profiles>>
store == <<threads, messages, attachments, rest>>
vars == <<threads, messages, attachments, personas, shares, prefs, files, profiles, now,
          calls, hist, ui>>

----------------------------------------------------------------------------
(* Bounds and finite domains                                               *)

MaxTime == 2

Times == 1..MaxTime
Procs == {"p1", "p2"}
Users == {"u1", "u2"}
NoUser == "nobody"
ThreadIds == {"t1", "t2"}

(* Store error codes: PostgREST's "no (or several) rows for .single()",    *)
(* Postgres' unique violation, and any other failure of a query.           *)
NoError == "ok"
NotFound == "PGRST116"
Conflict == "23505"
StoreFault == "08006"
NotAuthenticated == "User not authenticated"

Null == [null |-> TRUE]

\* an optional value: absent, or present with value x
None == {}
Some(x) == {x}
OrElse(opt, default) == IF opt = {} THEN default ELSE CHOOSE x \in opt : TRUE

----------------------------------------------------------------------------
(* Message ids.  An id is kept by its shape: the lengths of its            *)
(* dash-separated groups and whether every character is a hex digit.       *)

UuidShape == <<8, 4, 4, 4, 12>>

MkId(tag, groups, hex) == [tag |-> tag, groups |-> groups, hex |-> hex]

Undefined == MkId("undefined", <<>>, FALSE)
EmptyString == MkId("", <<0>>, TRUE)

\* message.id && message.id.match(/^[0-9a-f]{8}-...-[0-9a-f]{12}$/i)
IsValidUuid(id) ==
    /\ id # Undefined
    /\ id # EmptyString
    /\ id.groups = UuidShape
    /\ id.hex

GeneratedUuids == {MkId("g1", UuidShape, TRUE), MkId("g2", UuidShape, TRUE)}

----------------------------------------------------------------------------
(* The store's query primitives (the supabase client), as functions of a   *)
(* table.  A query result is [error, data] as in the client; a write also  *)
(* yields the table after it.  An injected error `err` (a failure of the   *)
(* store or of the transport) leaves the table as it was.                  *)

Range(seq) == {seq[i] : i \in DOMAIN seq}

Q(verb, table, error) == [verb |-> verb, table |-> table, error |-> error]

\* .maybeSingle(): no rows is no error
SelectMaybeSingle(rows, err) ==
    IF err # NoError THEN [error |-> err, data |-> Null]
    ELSE IF Cardinality(rows) = 1
         THEN [error |-> NoError, data |-> CHOOSE r \in rows : TRUE]
         ELSE [error |-> NoError, data |-> Null]

\* .single(): exactly one row, else error PGRST116
SelectSingle(rows, err) ==
    IF err # NoError THEN [error |-> err, data |-> Null]
    ELSE IF Cardinality(rows) = 1
         THEN [error |-> NoError, data |-> CHOOSE r \in rows : TRUE]
         ELSE [error |-> NotFound, data |-> Null]

\* a key of the rows to insert is taken already, or twice among them
PrimaryKeyTaken(table, rows) ==
    \/ \E i \in DOMAIN rows : \E r \in table : r.id = rows[i].id
    \/ \E i, j \in DOMAIN rows : i # j /\ rows[i].id = rows[j].id

\* Insert gone wrong: a taken key is not refused
InsertUnchecked(table, rows, err) ==
    IF err # NoError THEN [error |-> err, table |-> table]
    ELSE [error |-> NoError, table |-> table \cup Range(rows)]

\* .insert(rows): all rows or none; the primary key "id" is unique
Insert(table, rows, err) ==
    IF err # NoError THEN [error |-> err, table |-> table]
    ELSE IF PrimaryKeyTaken(table, rows)
         THEN [error |-> Conflict, table |-> table]
         ELSE [error |-> NoError, table |-> table \cup Range(rows)]

\* .upsert(row, {onConflict: 'id', ignoreDuplicates: false}): insert, or
\* overwrite the row holding that id with the given columns
\* Upsert gone wrong: a plain insert, which the key of a stored row refuses
UpsertAsInsert(table, row, err) ==
    Insert(table, <<[k \in DOMAIN row \cup {"updated_at"} |->
                       IF k \in DOMAIN row THEN row[k] ELSE 0]>>, err)

\* the columns an insert leaves out get the store's default (null, written 0)
WithDefaults(row, columns) ==
    [k \in DOMAIN row \cup columns |-> IF k \in DOMAIN row THEN row[k] ELSE 0]

\* the columns an update gives overwrite the row's, the others stay
Overwritten(old, row) ==
    [k \in DOMAIN old |-> IF k \in DOMAIN row THEN row[k] ELSE old[k]]

Upsert(table, row, err) ==
    IF err # NoError THEN [error |-> err, table |-> table]
    ELSE [error |-> NoError,
          table |-> IF \E r \in table : r.id = row.id
                    THEN {IF r.id = row.id THEN Overwritten(r, row) ELSE r : r \in table}
                    ELSE table \cup {WithDefaults(row, {"updated_at"})}]

----------------------------------------------------------------------------
(* Calls.  calls[p] is the call client p has in flight: the function, the  *)
(* place it has reached (pc), the session's user, its arguments (a), its   *)
(* locals (l), how it ended (out, err, ret) and the store queries it has   *)
(* issued so far (log).                                                    *)

\* the tables as they are now
Tables ==
    [threads |-> threads, messages |-> messages, attachments |-> attachments,
     personas |-> personas, shares |-> shares, prefs |-> prefs, files |-> files,
     profiles |-> profiles]

Idle == [op |-> "idle", pc |-> "idle", user |-> NoUser, a |-> Null, l |-> Null,
         out |-> "none", err |-> NoError, ret |-> Null, log |-> <<>>, pre |-> Null]

\* a call as it starts; pre keeps the tables as the call found them (it is
\* not read by the call: it is what the properties compare the outcome with)
NewCall(op, pc, user, a, l) ==
    [op |-> op, pc |-> pc, user |-> user, a |-> a, l |-> l,
     out |-> "pending", err |-> NoError, ret |-> Null, log |-> <<>>, pre |-> Tables]

\* the form is not mounted
NoForm == [mounted |-> FALSE]

\* the functions that only read the store; their calls are not kept in hist
ReadOps ==
    {"idle", "getMessagesByThreadId", "getFirstUserMessage", "getSharedThreadByThreadId",
     "getThreadPersona", "getUserProfile", "getUserPreferences", "getSharedThread",
     "getSharedThreadMessages", "getThreads"}

\* the clock never runs backwards: a read returns the last value or a later one
Clock == now..MaxTime

\* a query is built, arguments and all, before it is awaited: what a call
\* reads from the clock (new Date()) for its next query, it reads in the step
\* that handles the answer of the query before.  read tells whether that
\* step builds a query that reads the clock
ClockRead(read) == IF read THEN Clock ELSE {now}

\* client p starts call c; its previous call, if it wrote, moves to hist
Start(p, c) ==
    /\ calls[p].pc \in {"idle", "done"}
    /\ calls' = [calls EXCEPT ![p] = c]
    /\ hist' = IF calls[p].op \in ReadOps THEN hist ELSE Append(hist, calls[p])
    /\ UNCHANGED ui

\* the number of writing calls started so far
Started == Len(hist) + Cardinality({p \in Procs : calls[p].op \notin ReadOps})
At(p, op, pc) == calls[p].op = op /\ calls[p].pc = pc

Goto(c, pc, l, q) == [c EXCEPT !.pc = pc, !.l = l, !.log = Append(@, q)]
Throws(c, err) == [c EXCEPT !.pc = "done", !.out = "threw", !.err = err]
Returns(c, ret) == [c EXCEPT !.pc = "done", !.out = "returned", !.ret = ret]
Logged(c, q) == [c EXCEPT !.log = Append(@, q)]

\* RequireUser gone wrong: the check is left out
RequireNothing(c) == c

\* const { data: { user } } = await supabase.auth.getUser()
\* if (!user) throw new Error("User not authenticated")
RequireUser(c) == IF c.user = NoUser THEN Throws(c, NotAuthenticated) ELSE c

Set(p, c) ==
    /\ calls' = [calls EXCEPT ![p] = c]
    /\ UNCHANGED <<hist, ui>>

----------------------------------------------------------------------------
(* createThread                                                            *)

\* the row an insert of {id, title: "New Chat", user_id} adds; the store fills
\* last_message_at with its clock's time t and leaves project_id null (None)
ThreadRow(id, user, t) ==
    [id |-> id, user_id |-> user, title |-> "New Chat", last_message_at |-> t,
     project_id |-> None, is_archived |-> FALSE, updated_at |-> 0]

\* projectId || null
projectIdOf(projectId) == IF projectId = Some("") THEN None ELSE projectId

createThread(p, user, id, projectId) ==
    /\ Start(p, RequireUser(NewCall("createThread", "insert", user,
              [id |-> id, projectId |-> projectId], Null)))
    /\ UNCHANGED <<store, now>>

createThread_insert(p, err, t) ==
    LET c == calls[p]
        row == [ThreadRow(c.a.id, c.user, t) EXCEPT !.project_id = projectIdOf(c.a.projectId)]
        res == Insert(threads, <<row>>, err)
        c1 == Logged(c, Q("insert", "threads", res.error))
    IN /\ At(p, "createThread", "insert")
       /\ t \in Clock
       /\ threads' = res.table
       /\ now' = t
       /\ Set(p, IF res.error # NoError THEN Throws(c1, res.error)
                 ELSE Returns(c1, row))
       /\ UNCHANGED <<messages, attachments, rest>>

\* Visible gone wrong: the filter is left out
VisibleAll(rows, includeArchived) == rows

\* if (!includeArchived) query = query.eq("is_archived", false);
\* includeArchived = false when it is not given
Visible(rows, includeArchived) ==
    IF OrElse(includeArchived, FALSE) THEN rows ELSE {r \in rows : r.is_archived = FALSE}

\* the orders .order("last_message_at", {ascending: false}) can return the
\* rows in (rows of equal last_message_at come in any order)
Descending(rows) ==
    {s \in [1..Cardinality(rows) -> rows] :
        /\ \A i, j \in DOMAIN s : i # j => s[i] # s[j]
        /\ \A i, j \in DOMAIN s : i < j => s[i].last_message_at >= s[j].last_message_at}

getThreads(p, user, includeArchived) ==
    /\ Start(p, NewCall("getThreads", "select", user,
              [includeArchived |-> includeArchived], Null))
    /\ UNCHANGED <<store, now>>

\* what the query of the getThreads call of p can return
Listings(p) ==
    IF At(p, "getThreads", "select")
    THEN Descending(Visible(threads, calls[p].a.includeArchived)) ELSE {}

getThreads_select(p, err, data) ==
    LET c == calls[p]
        q == Q("select", "threads", err)
    IN /\ At(p, "getThreads", "select")
       /\ data \in Listings(p)
       /\ Set(p, IF err # NoError THEN Throws(Logged(c, q), err)
                 ELSE Returns(Logged(c, q), data))
       /\ UNCHANGED <<store, now>>

\* the call builds its query before it awaits it: new Date() is read when the
\* function is called (t), not when the store runs the update
toggleThreadArchived(p, user, threadId, isArchived, t) ==
    /\ t \in Clock
    /\ Start(p, NewCall("toggleThreadArchived", "update", user,
              [threadId |-> threadId, isArchived |-> isArchived],
              [updated_at |-> t]))
    /\ now' = t
    /\ UNCHANGED store

\* .update({is_archived, updated_at}).eq("id", threadId).select().single()
toggleThreadArchived_update(p, err) ==
    LET c == calls[p]
        matched == {r \in threads : r.id = c.a.threadId}
        updated == {[r EXCEPT !.is_archived = c.a.isArchived,
                              !.updated_at = c.l.updated_at] : r \in matched}
        res == SelectSingle(updated, err)
        q == Q("update", "threads", res.error)
    IN /\ At(p, "toggleThreadArchived", "update")
       /\ threads' = IF err # NoError THEN threads ELSE (threads \ matched) \cup updated
       /\ Set(p, IF res.error # NoError THEN Throws(Logged(c, q), res.error)
                 ELSE Returns(Logged(c, q), res.data))
       /\ UNCHANGED <<messages, attachments, rest, now>>

\* updateThread(id, title): no user is asked for; new Date() is read when the
\* function is called
updateThread(p, user, id, title, t) ==
    /\ t \in Clock
    /\ Start(p, NewCall("updateThread", "update", user,
              [id |-> id, title |-> title], [updated_at |-> t]))
    /\ now' = t
    /\ UNCHANGED store

\* .update({title, updated_at}).eq("id", id).select().single()
updateThread_update(p, err) ==
    LET c == calls[p]
        matched == {r \in threads : r.id = c.a.id}
        updated == {[r EXCEPT !.title = c.a.title,
                              !.updated_at = c.l.updated_at] : r \in matched}
        res == SelectSingle(updated, err)
        q == Q("update", "threads", res.error)
    IN /\ At(p, "updateThread", "update")
       /\ threads' = IF err # NoError THEN threads ELSE (threads \ matched) \cup updated
       /\ Set(p, IF res.error # NoError THEN Throws(Logged(c, q), res.error)
                 ELSE Returns(Logged(c, q), res.data))
       /\ UNCHANGED <<messages, attachments, rest, now>>

\* moveThreadToProject(threadId, projectId): no user is asked for; projectId
\* is a project id or null (None), written as it is given
moveThreadToProject(p, user, threadId, projectId, t) ==
    /\ t \in Clock
    /\ Start(p, NewCall("moveThreadToProject", "update", user,
              [threadId |-> threadId, projectId |-> projectId], [updated_at |-> t]))
    /\ now' = t
    /\ UNCHANGED store

\* .update({project_id, updated_at}).eq("id", threadId).select().single()
moveThreadToProject_update(p, err) ==
    LET c == calls[p]
        matched == {r \in threads : r.id = c.a.threadId}
        updated == {[r EXCEPT !.project_id = c.a.projectId,
                              !.updated_at = c.l.updated_at] : r \in matched}
        res == SelectSingle(updated, err)
        q == Q("update", "threads", res.error)
    IN /\ At(p, "moveThreadToProject", "update")
       /\ threads' = IF err # NoError THEN threads ELSE (threads \ matched) \cup updated
       /\ Set(p, IF res.error # NoError THEN Throws(Logged(c, q), res.error)
                 ELSE Returns(Logged(c, q), res.data))
       /\ UNCHANGED <<messages, attachments, rest, now>>

----------------------------------------------------------------------------
(* createMessage                                                           *)

\* an optional value is the empty set or a singleton

\* a FileUploadResult as the caller passes it
Upload(id, url, fileUrl, content, extractedText) ==
    [id |-> id, url |-> url, fileUrl |-> fileUrl,
     content |-> content, extractedText |-> extractedText]

\* the "file_attachments" part appended to message.parts (every upload, with
\* the id the caller gave, if any)
updatedParts(message, fileAttachments) ==
    IF Len(fileAttachments) > 0
    THEN message.parts \o
         <<[type |-> "file_attachments",
            attachments |-> [i \in DOMAIN fileAttachments |->
                [id |-> fileAttachments[i].id,
                 fileUrl |-> fileAttachments[i].url,
                 content |-> fileAttachments[i].content,
                 extractedText |-> fileAttachments[i].extractedText]]]>>
    ELSE message.parts

\* (message.createdAt || new Date()).toISOString(), new Date() reading t
createdAtOf(message, t) == OrElse(message.createdAt, t)

\* what new Date() can read there (it is not called when createdAt is given)
DateChoices(message) == IF message.createdAt = None THEN Clock ELSE {now}

\* the uploads that carry a URL, in order
WithUrl(fileAttachments) ==
    SelectSeq(fileAttachments, LAMBDA f : ~(f.fileUrl = "" /\ f.url = ""))

\* the file_attachments rows of the uploads; gen[i] is what uuidv4() returns
\* for the i-th of them when it has no id (the columns file_name, file_type,
\* file_size, thumbnail_url and created_at, which nothing here reads, are
\* left out)
attachmentsToInsert(c, gen) ==
    LET ups == WithUrl(c.a.fileAttachments)
    IN [i \in DOMAIN ups |->
          [id |-> OrElse(ups[i].id, gen[i]),
           message_id |-> c.l.messageId,
           thread_id |-> c.a.threadId,
           user_id |-> c.user,
           file_url |-> IF ups[i].fileUrl # "" THEN ups[i].fileUrl ELSE ups[i].url]]

\* messageIdOf gone wrong: the id given is used as it is
GivenId(message, uuid) == message.id

\* the id the row is written under; uuid is what uuidv4() returns
messageIdOf(message, uuid) == IF IsValidUuid(message.id) THEN message.id ELSE uuid

\* what uuidv4() can return: a well-formed id no row and no call holds
FreshUuids ==
    {g \in GeneratedUuids :
        /\ \A r \in messages : r.id # g
        /\ \A q \in Procs : calls[q].op = "createMessage" => calls[q].l.messageId # g}

\* uuidv4() is only called for an absent or malformed id
UuidChoices(message) == IF IsValidUuid(message.id) THEN {message.id} ELSE FreshUuids

GeneratedAttachmentIds == {"ga1", "ga2"}
FreshAttachmentIds == {g \in GeneratedAttachmentIds : \A r \in attachments : r.id # g}

\* what the uuidv4() calls of the attachment rows can return: a fresh id,
\* different each time, for each upload without an id ("unused" for the others)
AttachmentUuidChoices(fileAttachments) ==
    LET ups == WithUrl(fileAttachments)
    IN {gen \in [DOMAIN ups -> FreshAttachmentIds \cup {"unused"}] :
          /\ \A i \in DOMAIN ups : (gen[i] = "unused") <=> (ups[i].id # None)
          /\ \A i, j \in DOMAIN ups : (i # j /\ gen[i] # "unused") => gen[i] # gen[j]}

createMessage(p, user, threadId, message, fileAttachments) ==
    /\ UuidChoices(message) # {}
    /\ AttachmentUuidChoices(fileAttachments) # {}
    /\ Start(p, RequireUser(NewCall("createMessage", "lookup", user,
              [threadId |-> threadId, message |-> message,
               fileAttachments |-> fileAttachments],
              [messageId |-> Undefined, createdAt |-> 0, lastMessageAt |-> 0,
               attachError |-> NoError])))
    /\ UNCHANGED <<store, now>>

\* the thread is there: the upsert is built, its created_at read from the
\* clock (t) unless the message carries one
ToUpsert(c, t, q) ==
    Goto(c, "upsert", [c.l EXCEPT !.createdAt = createdAtOf(c.a.message, t)], q)

\* createMessage_lookup gone wrong: the owner of the row is not compared
createMessage_lookup_any_owner(p, err, t) ==
    LET c == calls[p]
        res == SelectSingle({r \in threads : r.id = c.a.threadId}, err)
        q == Q("select", "threads", res.error)
    IN /\ At(p, "createMessage", "lookup")
       /\ t \in ClockRead(res.error = NoError /\ c.a.message.createdAt = None)
       /\ now' = t
       /\ Set(p, IF res.error = NotFound THEN Goto(c, "insert_thread", c.l, q)
                 ELSE IF res.error # NoError THEN Throws(Logged(c, q), res.error)
                 ELSE ToUpsert(c, t, q))
       /\ UNCHANGED store

\* createMessage_lookup gone wrong: every error of the lookup is taken for
\* row-not-found
createMessage_lookup_lenient(p, err, t) ==
    LET c == calls[p]
        res == SelectSingle({r \in threads : r.id = c.a.threadId /\ r.user_id = c.user}, err)
        q == Q("select", "threads", res.error)
    IN /\ At(p, "createMessage", "lookup")
       /\ t \in ClockRead(res.error = NoError /\ c.a.message.createdAt = None)
       /\ now' = t
       /\ Set(p, IF res.error # NoError THEN Goto(c, "insert_thread", c.l, q)
                 ELSE ToUpsert(c, t, q))
       /\ UNCHANGED store

\* select the thread by id and owner; when it is found the call goes on to
\* build the upsert, reading the clock (t)
createMessage_lookup(p, err, t) ==
    LET c == calls[p]
        res == SelectSingle({r \in threads : r.id = c.a.threadId /\ r.user_id = c.user}, err)
        q == Q("select", "threads", res.error)
    IN /\ At(p, "createMessage", "lookup")
       /\ t \in ClockRead(res.error = NoError /\ c.a.message.createdAt = None)
       /\ now' = t
       /\ Set(p, IF res.error = NotFound THEN Goto(c, "insert_thread", c.l, q)
                 ELSE IF res.error # NoError THEN Throws(Logged(c, q), res.error)
                 ELSE ToUpsert(c, t, q))
       /\ UNCHANGED store

\* the thread was not found: insert it (the store's clock reads t); when the
\* insert succeeds the call goes on to build the upsert, reading the clock (at)
createMessage_insert_thread(p, err, t, at) ==
    LET c == calls[p]
        res == Insert(threads, <<ThreadRow(c.a.threadId, c.user, t)>>, err)
        q == Q("insert", "threads", res.error)
    IN /\ At(p, "createMessage", "insert_thread")
       /\ t \in Clock
       /\ at \in (IF res.error = NoError /\ c.a.message.createdAt = None
                  THEN t..MaxTime ELSE {t})
       /\ threads' = res.table
       /\ now' = at
       /\ Set(p, IF res.error # NoError THEN Throws(Logged(c, q), res.error)
                 ELSE ToUpsert(c, at, q))
       /\ UNCHANGED <<messages, attachments, rest>>

\* upsert the message row, with the created_at read when the query was built.
\* When it succeeds the call goes on to build its next query and reads the
\* clock for it (t): for the created_at of each file_attachments row when
\* there are rows to insert (a column left out of the rows here), else for
\* the thread's last_message_at unless the message carries a createdAt
createMessage_upsert(p, err, uuid, t) ==
    LET c == calls[p]
        m == c.a.message
        messageId == messageIdOf(m, uuid)
        row == [id |-> messageId, thread_id |-> c.a.threadId, user_id |-> c.user,
                parts |-> updatedParts(m, c.a.fileAttachments),
                role |-> m.role, content |-> m.content,
                created_at |-> c.l.createdAt]
        res == Upsert(messages, row, err)
        q == Q("upsert", "messages", res.error)
        attach == Len(WithUrl(c.a.fileAttachments)) > 0
        l == [c.l EXCEPT !.messageId = messageId,
                         !.lastMessageAt = IF attach THEN @ ELSE createdAtOf(m, t)]
    IN /\ At(p, "createMessage", "upsert")
       /\ uuid \in UuidChoices(m)
       /\ t \in ClockRead(res.error = NoError /\ (attach \/ m.createdAt = None))
       /\ messages' = res.table
       /\ now' = t
       /\ Set(p, IF res.error # NoError THEN Throws(Logged(c, q), res.error)
                 ELSE IF attach THEN Goto(c, "attach", l, q)
                 ELSE Goto(c, "touch", l, q))
       /\ UNCHANGED <<threads, attachments, rest>>

AttachmentUuids(p) ==
    IF At(p, "createMessage", "attach")
    THEN AttachmentUuidChoices(calls[p].a.fileAttachments) ELSE {}

\* AfterAttach gone wrong: the error of the insert is thrown on
AttachRethrows(c, error, q) ==
    IF error # NoError THEN Throws(Logged(c, q), error)
    ELSE Goto(c, "touch", [c.l EXCEPT !.attachError = error], q)

\* catch (error) { console.error(...) }: "Don't throw here as the message
\* was created successfully"
AfterAttach(c, error, q) == Goto(c, "touch", [c.l EXCEPT !.attachError = error], q)

\* insert the attachment rows; whatever the outcome the call goes on to build
\* the update of the thread, reading the clock (t)
createMessage_attach(p, err, gen, t) ==
    LET c == calls[p]
        rows == attachmentsToInsert(c, gen)
        res == Insert(attachments, rows, err)
        q == Q("insert", "file_attachments", res.error)
        c1 == [c EXCEPT !.l.lastMessageAt = createdAtOf(c.a.message, t)]
    IN /\ At(p, "createMessage", "attach")
       /\ gen \in AttachmentUuidChoices(c.a.fileAttachments)
       /\ t \in DateChoices(c.a.message)
       /\ attachments' = res.table
       /\ now' = t
       /\ Set(p, AfterAttach(c1, res.error, q))
       /\ UNCHANGED <<threads, messages, rest>>

\* update the thread's last_message_at (by thread id alone) to what was read
\* when the query was built
createMessage_touch(p, err) ==
    LET c == calls[p]
        q == Q("update", "threads", err)
    IN /\ At(p, "createMessage", "touch")
       /\ threads' = IF err # NoError THEN threads
                     ELSE {IF r.id = c.a.threadId
                           THEN [r EXCEPT !.last_message_at = c.l.lastMessageAt] ELSE r :
                             r \in threads}
       /\ Set(p, IF err # NoError THEN Throws(Logged(c, q), err)
                 ELSE Returns(Logged(c, q), Null))
       /\ UNCHANGED <<messages, attachments, rest, now>>

----------------------------------------------------------------------------
(* deleteTrailingMessages, getMessagesByThreadId                           *)

\* Trailing as it would be if the comparison did not follow the flag
TrailingStrict(row, createdAt, gte) == row.created_at > createdAt
TrailingInclusive(row, createdAt, gte) == row.created_at >= createdAt

\* const operator = gte ? "gte" : "gt"; the parameter defaults to true
Trailing(row, createdAt, gte) ==
    IF OrElse(gte, TRUE) THEN row.created_at >= createdAt ELSE row.created_at > createdAt

deleteTrailingMessages(p, user, threadId, createdAt, gte) ==
    /\ Start(p, NewCall("deleteTrailingMessages", "delete", user,
              [threadId |-> threadId, createdAt |-> createdAt, gte |-> gte], Null))
    /\ UNCHANGED <<store, now>>

deleteTrailingMessages_delete(p, err) ==
    LET c == calls[p]
        q == Q("delete", "messages", err)
    IN /\ At(p, "deleteTrailingMessages", "delete")
       /\ messages' = IF err # NoError THEN messages
                      ELSE {r \in messages :
                              ~(r.thread_id = c.a.threadId
                                /\ Trailing(r, c.a.createdAt, c.a.gte))}
       /\ Set(p, IF err # NoError THEN Throws(Logged(c, q), err)
                 ELSE Returns(Logged(c, q), Null))
       /\ UNCHANGED <<threads, attachments, now, rest>>

\* the orders .order("created_at", {ascending: true}) can return the rows in
\* (rows of equal created_at come in any order)
Ascending(rows) ==
    {s \in [1..Cardinality(rows) -> rows] :
        /\ \A i, j \in DOMAIN s : i # j => s[i] # s[j]
        /\ \A i, j \in DOMAIN s : i < j => s[i].created_at <= s[j].created_at}

getMessagesByThreadId(p, user, threadId) ==
    /\ Start(p, NewCall("getMessagesByThreadId", "select", user,
              [threadId |-> threadId], [data |-> <<>>]))
    /\ UNCHANGED <<store, now>>

BucketUrl == "https://s/storage/v1/object/public/thread-files/f2"
\* what fetch(fileUrl) and response.text() can do: a 2xx response whose body
\* is read, a non-2xx response, fetch rejecting, the body read rejecting
FetchOutcomes == {"ok", "http_error", "network_error", "body_error"}
ContentAt(url) == IF url = BucketUrl THEN "content of f2" ELSE "content of f1"

\* NeedsFetch gone wrong: content that is already there is fetched again
NeedsFetchAlways(attachment) == attachment.fileUrl # ""

\* !(attachment.content || attachment.extractedText) && attachment.fileUrl
NeedsFetch(attachment) ==
    /\ ~(attachment.content # "" \/ attachment.extractedText # "")
    /\ attachment.fileUrl # ""

\* one attachment of a file_attachments part, given how its own
\* fetch(attachment.fileUrl) ends, if it is fetched
Hydrated(attachment, outcome) ==
    IF NeedsFetch(attachment) /\ outcome = "ok"
    THEN [attachment EXCEPT !.content = ContentAt(attachment.fileUrl),
                            !.extractedText = ContentAt(attachment.fileUrl)]
    ELSE attachment

\* the attachments of data, as <<message, part, attachment>> positions
AttachmentsIn(data) ==
    UNION {UNION {{<<i, j, k>> : k \in DOMAIN data[i].parts[j].attachments} :
                    j \in {n \in DOMAIN data[i].parts :
                              data[i].parts[n].type = "file_attachments"}} :
             i \in DOMAIN data}
AttachmentAt(data, pos) == data[pos[1]].parts[pos[2]].attachments[pos[3]]

\* the attachments for which fetch(attachment.fileUrl) is called
Fetched(data) == {pos \in AttachmentsIn(data) : NeedsFetch(AttachmentAt(data, pos))}

\* how the fetch of the attachment at pos ended ("none" when it was not made)
OutcomeAt(data, fetch, pos) == IF pos \in Fetched(data) THEN fetch[pos] ELSE "none"

\* part j of message i of data
HydratedPart(data, fetch, i, j) ==
    LET part == data[i].parts[j]
    IN IF part.type = "file_attachments"
       THEN [part EXCEPT !.attachments =
               [k \in DOMAIN part.attachments |->
                   Hydrated(part.attachments[k], OutcomeAt(data, fetch, <<i, j, k>>))]]
       ELSE part

\* message i of data
HydratedMessage(data, fetch, i) ==
    [data[i] EXCEPT !.parts = [j \in DOMAIN data[i].parts |->
                                  HydratedPart(data, fetch, i, j)]]

\* the call, fetch telling where each fetch has got to ("pending": fetch()
\* awaited, "reading": response.text() awaited, else how it ended): the
\* outer Promise.all resolves and the call returns when every one has ended
Hydrating(c, data, fetch) ==
    LET l == [data |-> data, fetched |-> Fetched(data), fetch |-> fetch]
    IN IF \A pos \in Fetched(data) : fetch[pos] \in FetchOutcomes
       THEN Returns([c EXCEPT !.l = l],
                    [i \in DOMAIN data |-> HydratedMessage(data, fetch, i)])
       ELSE [c EXCEPT !.pc = "hydrate", !.l = l]

\* .select("*").eq("thread_id", threadId).order("created_at"); on its answer
\* fetch() is called for every attachment without content that has a URL,
\* and with none to fetch the call returns in this step
getMessagesByThreadId_select(p, err, data) ==
    LET c == calls[p]
        q == Q("select", "messages", err)
    IN /\ At(p, "getMessagesByThreadId", "select")
       /\ data \in Ascending({r \in messages : r.thread_id = c.a.threadId})
       /\ Set(p, IF err # NoError THEN Throws(Logged(c, q), err)
                 ELSE Hydrating(Logged(c, q), data,
                                [pos \in Fetched(data) |-> "pending"]))
       /\ UNCHANGED <<store, now>>

\* the attachments of the call of p whose fetch is at stage
FetchesAt(p, stage) ==
    IF At(p, "getMessagesByThreadId", "hydrate")
    THEN {pos \in calls[p].l.fetched : calls[p].l.fetch[pos] = stage} ELSE {}

\* fetch(attachment.fileUrl) of one attachment settles: a 2xx response, whose
\* body is then read ("reading"), a non-2xx response or a rejection
getMessagesByThreadId_fetch(p, pos, response) ==
    LET c == calls[p]
    IN /\ At(p, "getMessagesByThreadId", "hydrate")
       /\ pos \in FetchesAt(p, "pending")
       /\ response \in {"reading", "http_error", "network_error"}
       /\ Set(p, Hydrating(c, c.l.data, [c.l.fetch EXCEPT ![pos] = response]))
       /\ UNCHANGED <<store, now>>

\* response.text() of one attachment settles: the body, or a rejection
getMessagesByThreadId_text(p, pos, outcome) ==
    LET c == calls[p]
    IN /\ At(p, "getMessagesByThreadId", "hydrate")
       /\ pos \in FetchesAt(p, "reading")
       /\ outcome \in {"ok", "body_error"}
       /\ Set(p, Hydrating(c, c.l.data, [c.l.fetch EXCEPT ![pos] = outcome]))
       /\ UNCHANGED <<store, now>>

----------------------------------------------------------------------------
(* setThreadPersona                                                        *)

PersonaRow(c) ==
    [thread_id |-> c.a.threadId, persona_id |-> c.a.personaId, user_id |-> c.user]

setThreadPersona(p, user, threadId, personaId) ==
    /\ Start(p, RequireUser(NewCall("setThreadPersona", "lookup", user,
              [threadId |-> threadId, personaId |-> personaId], Null)))
    /\ UNCHANGED <<store, now>>

\* select the thread by id and owner
setThreadPersona_lookup(p, err) ==
    LET c == calls[p]
        res == SelectSingle({r \in threads : r.id = c.a.threadId /\ r.user_id = c.user}, err)
        q == Q("select", "threads", res.error)
    IN /\ At(p, "setThreadPersona", "lookup")
       /\ Set(p, IF res.error = NotFound THEN Goto(c, "insert_thread", c.l, q)
                 ELSE IF res.error # NoError THEN Throws(Logged(c, q), res.error)
                 ELSE Goto(c, "delete", c.l, q))
       /\ UNCHANGED <<store, now>>

setThreadPersona_insert_thread(p, err, t) ==
    LET c == calls[p]
        res == Insert(threads, <<ThreadRow(c.a.threadId, c.user, t)>>, err)
        q == Q("insert", "threads", res.error)
    IN /\ At(p, "setThreadPersona", "insert_thread")
       /\ t \in Clock
       /\ threads' = res.table
       /\ now' = t
       /\ Set(p, IF res.error # NoError THEN Throws(Logged(c, q), res.error)
                 ELSE Goto(c, "delete", c.l, q))
       /\ UNCHANGED <<messages, attachments, rest>>

\* PersonasKept gone wrong: the delete is left out
PersonasAllKept(rows, c, err) == rows

\* the rows the delete by thread_id and user_id leaves
PersonasKept(rows, c, err) ==
    IF err # NoError THEN rows
    ELSE SelectSeq(rows, LAMBDA r : ~(r.thread_id = c.a.threadId /\ r.user_id = c.user))

\* delete the personas of the thread and user; the outcome is not looked at
setThreadPersona_delete(p, err) ==
    LET c == calls[p]
    IN /\ At(p, "setThreadPersona", "delete")
       /\ personas' = PersonasKept(personas, c, err)
       /\ Set(p, Goto(c, "insert", c.l, Q("delete", "thread_personas", err)))
       /\ UNCHANGED <<threads, messages, attachments, shares, prefs, files, profiles, now>>

setThreadPersona_insert(p, err) ==
    LET c == calls[p]
        q == Q("insert", "thread_personas", err)
    IN /\ At(p, "setThreadPersona", "insert")
       /\ personas' = IF err # NoError THEN personas ELSE Append(personas, PersonaRow(c))
       /\ Set(p, IF err # NoError THEN Throws(Logged(c, q), err)
                 ELSE Returns(Logged(c, q), PersonaRow(c)))
       /\ UNCHANGED <<threads, messages, attachments, shares, prefs, files, profiles, now>>

removeThreadPersona(p, user, threadId) ==
    /\ Start(p, RequireUser(NewCall("removeThreadPersona", "delete", user,
              [threadId |-> threadId], Null)))
    /\ UNCHANGED <<store, now>>

\* .delete().eq("thread_id", threadId).eq("user_id", user.id); if (error) throw error
removeThreadPersona_delete(p, err) ==
    LET c == calls[p]
        q == Q("delete", "thread_personas", err)
    IN /\ At(p, "removeThreadPersona", "delete")
       /\ personas' = PersonasKept(personas, c, err)
       /\ Set(p, IF err # NoError THEN Throws(Logged(c, q), err)
                 ELSE Returns(Logged(c, q), Null))
       /\ UNCHANGED <<threads, messages, attachments, shares, prefs, files, profiles, now>>

----------------------------------------------------------------------------
(* updateMessageInDatabase: every failure, thrown or returned, ends in     *)
(* "return false"                                                          *)

isUserMessage(messageCheck, user) == messageCheck.user_id = user
isAssistantMessage(messageCheck) == messageCheck.role = "assistant"

updateMessageInDatabase(p, user, messageId, newContent) ==
    LET c == NewCall("updateMessageInDatabase", "check", user,
                     [messageId |-> messageId, newContent |-> newContent],
                     [messageCheck |-> Null, updatedData |-> {}, updated_at |-> 0])
    IN /\ Start(p, IF user = NoUser THEN Returns(c, FALSE) ELSE c)
       /\ UNCHANGED <<store, now>>

\* select the message by id; for the caller's own message the call goes on
\* to build the update, reading the clock (t)
updateMessageInDatabase_check(p, err, t) ==
    LET c == calls[p]
        res == SelectSingle({r \in messages : r.id = c.a.messageId}, err)
        q == Q("select", "messages", res.error)
        own == res.error = NoError /\ isUserMessage(res.data, c.user)
        l == [c.l EXCEPT !.messageCheck = res.data, !.updated_at = t]
    IN /\ At(p, "updateMessageInDatabase", "check")
       /\ t \in ClockRead(own)
       /\ now' = t
       /\ Set(p, IF res.error # NoError THEN Returns(Logged(c, q), FALSE)
                 ELSE IF isUserMessage(res.data, c.user) THEN Goto(c, "update_own", l, q)
                 ELSE IF isAssistantMessage(res.data) THEN Goto(c, "thread_check", l, q)
                 ELSE Returns(Logged(c, q), FALSE))
       /\ UNCHANGED store

\* ThreadCheckRows gone wrong: the owner is not asked for
ThreadCheckAnyOwner(c) == {r \in threads : r.id = c.l.messageCheck.thread_id}

\* the thread of the message, if the caller owns it
ThreadCheckRows(c) ==
    {r \in threads : r.id = c.l.messageCheck.thread_id /\ r.user_id = c.user}

\* select the thread of the message; when it is the caller's the call goes
\* on to build the update, reading the clock (t)
updateMessageInDatabase_thread_check(p, err, t) ==
    LET c == calls[p]
        res == SelectSingle(ThreadCheckRows(c), err)
        q == Q("select", "threads", res.error)
    IN /\ At(p, "updateMessageInDatabase", "thread_check")
       /\ t \in ClockRead(res.error = NoError)
       /\ now' = t
       /\ Set(p, IF res.error # NoError THEN Returns(Logged(c, q), FALSE)
                 ELSE Goto(c, "update_thread", [c.l EXCEPT !.updated_at = t], q))
       /\ UNCHANGED store

\* .update({content, updated_at}) of the rows matched, .select() returning them
UpdateContent(matched, c, err, t) ==
    IF err # NoError THEN [error |-> err, table |-> messages, data |-> {}]
    ELSE LET new(r) == [r EXCEPT !.content = c.a.newContent, !.updated_at = t]
         IN [error |-> NoError,
             table |-> {IF r \in matched THEN new(r) ELSE r : r \in messages},
             data |-> {new(r) : r \in matched}]

\* after either update: an error or no row updated ends the call
AfterUpdate(c, res) ==
    LET q == Q("update", "messages", res.error)
    IN IF res.error # NoError \/ res.data = {} THEN Returns(Logged(c, q), FALSE)
       ELSE Goto(c, "verify", [c.l EXCEPT !.updatedData = res.data], q)

\* the caller's own message: update by id and user_id, with the updated_at
\* read when the query was built
updateMessageInDatabase_update_own(p, err) ==
    LET c == calls[p]
        matched == {r \in messages : r.id = c.a.messageId /\ r.user_id = c.user}
        res == UpdateContent(matched, c, err, c.l.updated_at)
    IN /\ At(p, "updateMessageInDatabase", "update_own")
       /\ messages' = res.table
       /\ Set(p, AfterUpdate(c, res))
       /\ UNCHANGED <<threads, attachments, rest, now>>

\* an assistant message in the caller's thread: update by id and thread_id,
\* with the updated_at read when the query was built
updateMessageInDatabase_update_thread(p, err) ==
    LET c == calls[p]
        matched == {r \in messages : r.id = c.a.messageId
                                     /\ r.thread_id = c.l.messageCheck.thread_id}
        res == UpdateContent(matched, c, err, c.l.updated_at)
    IN /\ At(p, "updateMessageInDatabase", "update_thread")
       /\ messages' = res.table
       /\ Set(p, AfterUpdate(c, res))
       /\ UNCHANGED <<threads, attachments, rest, now>>

\* Verified gone wrong: the content read back is not compared
VerifiedUnread(verifyData, newContent) == TRUE

\* verifyData.content === newContent
Verified(verifyData, newContent) == verifyData.content = newContent

\* select the message again and compare its content
updateMessageInDatabase_verify(p, err) ==
    LET c == calls[p]
        res == SelectSingle({r \in messages : r.id = c.a.messageId}, err)
        q == Q("select", "messages", res.error)
    IN /\ At(p, "updateMessageInDatabase", "verify")
       /\ Set(p, IF res.error # NoError THEN Returns(Logged(c, q), FALSE)
                 ELSE Returns(Logged(c, q), Verified(res.data, c.a.newContent)))
       /\ UNCHANGED <<store, now>>

\* what a store call throws instead of returning {data, error}
Rejected == "TypeError: fetch failed"

\* Caught gone wrong: there is no catch
Uncaught(c) == Throws(c, Rejected)

\* catch (error) { ...; return false }
Caught(c) == Returns(c, FALSE)

\* the store call the function is waiting for throws
updateMessageInDatabase_rejects(p) ==
    LET c == calls[p]
    IN /\ c.op = "updateMessageInDatabase" /\ c.pc # "done"
       /\ Set(p, Caught(Logged(c, Q("rejected", "any", Rejected))))
       /\ UNCHANGED <<store, now>>

----------------------------------------------------------------------------
(* deleteAllThreads                                                        *)

\* the store deletes the messages of a deleted thread with it
Cascade(rows, deleted) == {r \in rows : ~\E th \in deleted : th.id = r.thread_id}

deleteAllThreads(p, user) ==
    /\ Start(p, RequireUser(NewCall("deleteAllThreads", "delete", user, Null, Null)))
    /\ UNCHANGED <<store, now>>

deleteAllThreads_delete(p, err) ==
    LET c == calls[p]
        deleted == {r \in threads : r.user_id = c.user}
        q == Q("delete", "threads", err)
    IN /\ At(p, "deleteAllThreads", "delete")
       /\ threads' = IF err # NoError THEN threads ELSE threads \ deleted
       /\ messages' = IF err # NoError THEN messages ELSE Cascade(messages, deleted)
       /\ Set(p, IF err # NoError THEN Throws(Logged(c, q), err)
                 ELSE Returns(Logged(c, q), Null))
       /\ UNCHANGED <<attachments, rest, now>>

----------------------------------------------------------------------------
(* deleteThread: the user is not asked for; the row is chosen by id alone   *)

deleteThread(p, user, id) ==
    /\ Start(p, NewCall("deleteThread", "delete", user, [id |-> id], Null))
    /\ UNCHANGED <<store, now>>

deleteThread_delete(p, err) ==
    LET c == calls[p]
        deleted == {r \in threads : r.id = c.a.id}
        q == Q("delete", "threads", err)
    IN /\ At(p, "deleteThread", "delete")
       /\ threads' = IF err # NoError THEN threads ELSE threads \ deleted
       /\ messages' = IF err # NoError THEN messages ELSE Cascade(messages, deleted)
       /\ Set(p, IF err # NoError THEN Throws(Logged(c, q), err)
                 ELSE Returns(Logged(c, q), Null))
       /\ UNCHANGED <<attachments, rest, now>>

----------------------------------------------------------------------------
(* createSharedThread, updateSharedThread, deleteSharedThread              *)

\* Passwords are JavaScript strings: sequences of UTF-16 code units, written
\* here as sequences of numbers.
NoText == <<>>
\* "pw" and "pw2"
Pw == <<112, 119>>
Pw2 == <<112, 119, 50>>

\* the code units D800..DBFF and DC00..DFFF
IsHighSurrogate(unit) == unit >= 55296 /\ unit <= 56319
IsLowSurrogate(unit) == unit >= 56320 /\ unit <= 57343

\* the UTF-8 encoding of a scalar value
Utf8(cp) ==
    IF cp < 128 THEN <<cp>>
    ELSE IF cp < 2048 THEN <<192 + (cp \div 64), 128 + (cp % 64)>>
    ELSE IF cp < 65536
         THEN <<224 + (cp \div 4096), 128 + ((cp \div 64) % 64), 128 + (cp % 64)>>
    ELSE <<240 + (cp \div 262144), 128 + ((cp \div 4096) % 64),
           128 + ((cp \div 64) % 64), 128 + (cp % 64)>>

\* new TextEncoder().encode(password): a high surrogate followed by a low one
\* is one scalar value, any other surrogate is encoded as U+FFFD
RECURSIVE encode(_)
encode(password) ==
    IF password = <<>> THEN <<>>
    ELSE IF Len(password) > 1 /\ IsHighSurrogate(password[1]) /\ IsLowSurrogate(password[2])
         THEN Utf8(65536 + (password[1] - 55296) * 1024 + (password[2] - 56320))
                 \o encode(SubSeq(password, 3, Len(password)))
    ELSE IF IsHighSurrogate(password[1]) \/ IsLowSurrogate(password[1])
         THEN Utf8(65533) \o encode(Tail(password))
    ELSE Utf8(password[1]) \o encode(Tail(password))

\* hashPassword gone wrong: the code units are hashed as they are
hashPasswordRaw(password) == [sha256 |-> password]

\* base64 of the SHA-256 digest of the bytes encoded.  base64 is one-to-one;
\* SHA-256 is taken to be (no two byte strings with the same digest are
\* known), so the digest is written as the bytes it is the digest of.
hashPassword(password) == [sha256 |-> encode(password)]

\* the calls of hashPassword and verifyPassword, each up to and after its
\* await
hashPassword_call(p, user, password) ==
    /\ Start(p, NewCall("hashPassword", "digest", user, [password |-> password], Null))
    /\ UNCHANGED <<store, now>>

hashPassword_digest(p) ==
    /\ At(p, "hashPassword", "digest")
    /\ Set(p, Returns(calls[p], hashPassword(calls[p].a.password)))
    /\ UNCHANGED <<store, now>>

verifyPassword(p, user, password, hash) ==
    /\ Start(p, NewCall("verifyPassword", "digest", user,
              [password |-> password, hash |-> hash], Null))
    /\ UNCHANGED <<store, now>>

\* hashedPassword === hash
verifyPassword_digest(p) ==
    /\ At(p, "verifyPassword", "digest")
    /\ Set(p, Returns(calls[p], hashPassword(calls[p].a.password) = calls[p].a.hash))
    /\ UNCHANGED <<store, now>>

\* generateShareToken(): 16 random bytes; what they are is the environment's
ShareTokens == {"k1", "k2"}
\* the ids the store gives to new shared_threads rows
ShareIds == {"s1", "s2"}
FreshShareIds == {i \in ShareIds : \A r \in shares : r.id # i}
\* share_token is unique in the store
TokenTaken(token) == \E r \in shares : r.share_token = token

\* if (password): undefined and "" are not hashed
HasPassword(password) == password \notin {None, Some(NoText)}

\* let passwordHash; if (password) passwordHash = await hashPassword(password)
\* (None: the column is left null)
passwordHashOf(password) ==
    IF HasPassword(password) THEN Some(hashPassword(OrElse(password, NoText))) ELSE None

\* createSharedThread up to await hashPassword(password) or, without a
\* password to hash, to the insert
createSharedThread(p, user, threadId, title, description, isPublic, password, expiresAt, token) ==
    /\ token \in ShareTokens
    /\ Start(p, RequireUser(NewCall("createSharedThread",
              IF HasPassword(password) THEN "digest" ELSE "insert", user,
              [threadId |-> threadId, title |-> title, description |-> description,
               isPublic |-> isPublic, password |-> password, expiresAt |-> expiresAt],
              [shareToken |-> token, passwordHash |-> None])))
    /\ UNCHANGED <<store, now>>

\* the digest is there: passwordHash is set and the insert is issued
createSharedThread_digest(p) ==
    LET c == calls[p]
    IN /\ At(p, "createSharedThread", "digest")
       /\ Set(p, [c EXCEPT !.pc = "insert", !.l.passwordHash = passwordHashOf(c.a.password)])
       /\ UNCHANGED <<store, now>>

\* .insert({...}).select().single(); if (error) throw error.  The store
\* gives the row an id (a fresh one) when it inserts it
createSharedThread_insert(p, err, id) ==
    LET c == calls[p]
        row == [id |-> id, thread_id |-> c.a.threadId, user_id |-> c.user,
                share_token |-> c.l.shareToken, title |-> c.a.title,
                description |-> c.a.description,
                is_public |-> OrElse(c.a.isPublic, TRUE),
                password_hash |-> c.l.passwordHash,
                expires_at |-> OrElse(c.a.expiresAt, 0),
                updated_at |-> 0]
        error == IF err # NoError THEN err
                 ELSE IF TokenTaken(c.l.shareToken) THEN Conflict ELSE NoError
        q == Q("insert", "shared_threads", error)
    IN /\ At(p, "createSharedThread", "insert")
       /\ id \in (IF error = NoError THEN FreshShareIds ELSE ShareIds)
       /\ shares' = IF error # NoError THEN shares ELSE shares \cup {row}
       /\ Set(p, IF error # NoError THEN Throws(Logged(c, q), error)
                 ELSE Returns(Logged(c, q), row))
       /\ UNCHANGED <<threads, messages, attachments, personas, prefs, files, profiles, now>>

\* updateData: the updates given, with updated_at, password replaced by
\* password_hash, and expires_at as a string or null; a field left out of
\* updates (None) is left out of updateData.  The nullable columns
\* description and password_hash hold None for null and Some(x) for x.
\* updateData gone wrong: `delete updateData.password` is left out
updateDataKeepsPassword(updates, t) ==
    [title |-> updates.title,
     description |-> IF updates.description = None THEN None
                     ELSE Some(updates.description),
     is_public |-> updates.is_public,
     password |-> updates.password,
     password_hash |-> IF updates.password = None THEN None
                       ELSE Some(passwordHashOf(updates.password)),
     expires_at |-> updates.expires_at,
     updated_at |-> Some(t)]

\* the key password comes with ...updates and is deleted when a password
\* was given, so that it is there in neither case
updateData(updates, t) ==
    [title |-> updates.title,
     description |-> IF updates.description = None THEN None
                     ELSE Some(updates.description),
     is_public |-> updates.is_public,
     password |-> IF updates.password # None THEN None ELSE updates.password,
     password_hash |-> IF updates.password = None THEN None
                       ELSE Some(passwordHashOf(updates.password)),
     expires_at |-> updates.expires_at,
     updated_at |-> Some(t)]

\* the row after .update(updateData)
SharedUpdated(row, data) ==
    [k \in DOMAIN row |-> IF k \in DOMAIN data THEN OrElse(data[k], row[k]) ELSE row[k]]

\* updateSharedThread up to await hashPassword(updates.password), the clock
\* read (t) for updated_at, or, without a password to hash, to the update
\* with updateData complete
updateSharedThread(p, user, id, updates, t) ==
    /\ t \in ClockRead(user # NoUser)
    /\ Start(p, RequireUser(NewCall("updateSharedThread",
              IF HasPassword(updates.password) THEN "digest" ELSE "update", user,
              [id |-> id, updates |-> updates],
              [updated_at |-> t,
               updateData |-> IF user = NoUser \/ HasPassword(updates.password) THEN Null
                              ELSE updateData(updates, t)])))
    /\ now' = t
    /\ UNCHANGED store

\* the digest is there: updateData is completed and the update is issued
updateSharedThread_digest(p) ==
    LET c == calls[p]
    IN /\ At(p, "updateSharedThread", "digest")
       /\ Set(p, [c EXCEPT !.pc = "update",
                           !.l.updateData = updateData(c.a.updates, c.l.updated_at)])
       /\ UNCHANGED <<store, now>>

\* .update(updateData).eq("id", id).eq("user_id", user.id).select().single()
updateSharedThread_update(p, err) ==
    LET c == calls[p]
        matched == {r \in shares : r.id = c.a.id /\ r.user_id = c.user}
        updated == {SharedUpdated(r, c.l.updateData) : r \in matched}
        res == SelectSingle(updated, err)
        q == Q("update", "shared_threads", res.error)
    IN /\ At(p, "updateSharedThread", "update")
       /\ shares' = IF err # NoError THEN shares ELSE (shares \ matched) \cup updated
       /\ Set(p, IF res.error # NoError THEN Throws(Logged(c, q), res.error)
                 ELSE Returns(Logged(c, q), res.data))
       /\ UNCHANGED <<threads, messages, attachments, personas, prefs, files, profiles, now>>

deleteSharedThread(p, user, id) ==
    /\ Start(p, RequireUser(NewCall("deleteSharedThread", "delete", user, [id |-> id], Null)))
    /\ UNCHANGED <<store, now>>

deleteSharedThread_delete(p, err) ==
    LET c == calls[p]
        q == Q("delete", "shared_threads", err)
    IN /\ At(p, "deleteSharedThread", "delete")
       /\ shares' = IF err # NoError THEN shares
                    ELSE {r \in shares : ~(r.id = c.a.id /\ r.user_id = c.user)}
       /\ Set(p, IF err # NoError THEN Throws(Logged(c, q), err)
                 ELSE Returns(Logged(c, q), Null))
       /\ UNCHANGED <<threads, messages, attachments, personas, prefs, files, profiles, now>>

----------------------------------------------------------------------------
(* saveUserPreferences                                                     *)

TableMissing == "42P01"
\* the ids the store gives to new user_preferences rows
PrefIds == {"r1", "r2", "r3", "r4"}
FreshPrefIds == {i \in PrefIds : \A r \in prefs : r.id # i}

\* the preference columns (two of the ten, which are all treated alike); a
\* column holds None for null and Some(x) for x
PrefColumns == {"preferred_name", "selected_model"}

saveUserPreferences(p, user, preferences) ==
    /\ Start(p, RequireUser(NewCall("saveUserPreferences", "select", user,
              [preferences |-> preferences], [updated_at |-> 0])))
    /\ UNCHANGED <<store, now>>

\* select the user's row; the error of this query is not looked at.  When a
\* row came back the call goes on to build the update, reading the clock (t)
saveUserPreferences_select(p, err, t) ==
    LET c == calls[p]
        res == SelectSingle({r \in prefs : r.user_id = c.user}, err)
        q == Q("select", "user_preferences", res.error)
    IN /\ At(p, "saveUserPreferences", "select")
       /\ t \in ClockRead(res.error = NoError)
       /\ now' = t
       /\ Set(p, IF res.error = NoError THEN Goto(c, "update", [updated_at |-> t], q)
                 ELSE Goto(c, "insert", c.l, q))
       /\ UNCHANGED store

\* catch (error): 42P01 returns null, anything else is thrown again
SaveCaught(c, q) ==
    IF q.error = TableMissing THEN Returns(Logged(c, q), Null)
    ELSE Throws(Logged(c, q), q.error)

\* a row with the preferences given written over it
PrefsWritten(row, preferences) ==
    [k \in DOMAIN row |->
        IF k \in DOMAIN preferences /\ preferences[k] # None
        THEN preferences[k] ELSE row[k]]

\* .update({...preferences, updated_at}).eq("user_id", user.id).select().single()
saveUserPreferences_update(p, err) ==
    LET c == calls[p]
        matched == {r \in prefs : r.user_id = c.user}
        updated == {[PrefsWritten(r, c.a.preferences) EXCEPT !.updated_at = c.l.updated_at] :
                      r \in matched}
        res == SelectSingle(updated, err)
        q == Q("update", "user_preferences", res.error)
    IN /\ At(p, "saveUserPreferences", "update")
       /\ prefs' = IF err # NoError THEN prefs ELSE (prefs \ matched) \cup updated
       /\ Set(p, IF res.error # NoError THEN SaveCaught(c, q)
                 ELSE Returns(Logged(c, q), res.data))
       /\ UNCHANGED <<threads, messages, attachments, personas, shares, files, profiles, now>>

\* .insert({user_id, ...preferences}).select().single()
saveUserPreferences_insert(p, err, id) ==
    LET c == calls[p]
        row == PrefsWritten([id |-> id, user_id |-> c.user, preferred_name |-> None,
                             selected_model |-> None, updated_at |-> 0],
                            c.a.preferences)
        q == Q("insert", "user_preferences", err)
    IN /\ At(p, "saveUserPreferences", "insert")
       /\ id \in (IF err = NoError THEN FreshPrefIds ELSE PrefIds)
       /\ prefs' = IF err # NoError THEN prefs ELSE prefs \cup {row}
       /\ Set(p, IF err # NoError THEN SaveCaught(c, q)
                 ELSE Returns(Logged(c, q), row))
       /\ UNCHANGED <<threads, messages, attachments, personas, shares, files, profiles, now>>

deleteUserPreferences(p, user) ==
    /\ Start(p, RequireUser(NewCall("deleteUserPreferences", "delete", user, Null, Null)))
    /\ UNCHANGED <<store, now>>

\* .delete().eq("user_id", user.id); if (error) throw error
deleteUserPreferences_delete(p, err) ==
    LET c == calls[p]
        q == Q("delete", "user_preferences", err)
    IN /\ At(p, "deleteUserPreferences", "delete")
       /\ prefs' = IF err # NoError THEN prefs ELSE {r \in prefs : r.user_id # c.user}
       /\ Set(p, IF err # NoError THEN Throws(Logged(c, q), err)
                 ELSE Returns(Logged(c, q), Null))
       /\ UNCHANGED <<threads, messages, attachments, personas, shares, files, profiles, now>>

----------------------------------------------------------------------------
(* deleteFileAttachment                                                    *)

\* url.pathname.match(/\/storage\/v1\/object\/public\/thread-files\/(.+)/):
\* the path in the bucket, for the URLs of the model
pathMatch(url) == IF url = BucketUrl THEN Some("f2") ELSE None

deleteFileAttachment(p, user, fileId) ==
    /\ Start(p, RequireUser(NewCall("deleteFileAttachment", "select", user,
              [fileId |-> fileId], [path |-> None])))
    /\ UNCHANGED <<store, now>>

\* select the file's URL by id and owner
deleteFileAttachment_select(p, err) ==
    LET c == calls[p]
        res == SelectSingle({r \in attachments : r.id = c.a.fileId /\ r.user_id = c.user}, err)
        q == Q("select", "file_attachments", res.error)
    IN /\ At(p, "deleteFileAttachment", "select")
       /\ Set(p, IF res.error # NoError THEN Throws(Logged(c, q), res.error)
                 ELSE IF res.data.file_url # "" /\ pathMatch(res.data.file_url) # None
                      THEN Goto(c, "remove", [path |-> pathMatch(res.data.file_url)], q)
                      ELSE Goto(c, "delete", c.l, q))
       /\ UNCHANGED <<store, now>>

\* deleteFileAttachment_remove gone wrong: a failure of the removal is thrown
deleteFileAttachment_remove_rethrows(p, err) ==
    LET c == calls[p]
        q == Q("remove", "thread-files", err)
    IN /\ At(p, "deleteFileAttachment", "remove")
       /\ files' = IF err # NoError THEN files ELSE files \ c.l.path
       /\ Set(p, IF err # NoError THEN Throws(Logged(c, q), err)
                 ELSE Goto(c, "delete", c.l, q))
       /\ UNCHANGED <<threads, messages, attachments, personas, shares, prefs, profiles, now>>

\* supabase.storage.from("thread-files").remove([path]); its outcome is not
\* looked at and what it throws is caught
deleteFileAttachment_remove(p, err) ==
    LET c == calls[p]
    IN /\ At(p, "deleteFileAttachment", "remove")
       /\ files' = IF err # NoError THEN files ELSE files \ c.l.path
       /\ Set(p, Goto(c, "delete", c.l, Q("remove", "thread-files", err)))
       /\ UNCHANGED <<threads, messages, attachments, personas, shares, prefs, profiles, now>>

\* delete the row by id and owner
deleteFileAttachment_delete(p, err) ==
    LET c == calls[p]
        q == Q("delete", "file_attachments", err)
    IN /\ At(p, "deleteFileAttachment", "delete")
       /\ attachments' = IF err # NoError THEN attachments
                         ELSE {r \in attachments : ~(r.id = c.a.fileId /\ r.user_id = c.user)}
       /\ Set(p, IF err # NoError THEN Throws(Logged(c, q), err)
                 ELSE Returns(Logged(c, q), Null))
       /\ UNCHANGED <<threads, messages, rest, now>>

----------------------------------------------------------------------------
(* The single-row lookups: getFirstUserMessage, getSharedThreadByThreadId,  *)
(* getThreadPersona, getUserProfile, getUserPreferences                     *)

\* if (error && error.code !== "PGRST116") throw error
\* return data || null
NullIfNotFound(c, res, data, q) ==
    IF res.error # NoError /\ res.error # NotFound THEN Throws(Logged(c, q), res.error)
    ELSE Returns(Logged(c, q), data)

\* the user messages of the thread first in .order("created_at").limit(1)
\* (which of several with the same created_at is the store's choice)
FirstUserMessages(threadId) ==
    LET rows == {r \in messages : r.thread_id = threadId /\ r.role = "user"}
    IN {r \in rows : \A o \in rows : r.created_at <= o.created_at}

getFirstUserMessage(p, user, threadId) ==
    /\ Start(p, NewCall("getFirstUserMessage", "select", user, [threadId |-> threadId], Null))
    /\ UNCHANGED <<store, now>>

\* .select("id, content, created_at") ... .limit(1).single()
getFirstUserMessage_select(p, err, first) ==
    LET c == calls[p]
        res == SelectSingle(FirstUserMessages(c.a.threadId) \cap {first}, err)
        data == IF res.data = Null THEN Null
                ELSE [id |-> res.data.id, content |-> res.data.content,
                      created_at |-> res.data.created_at]
        q == Q("select", "messages", res.error)
    IN /\ At(p, "getFirstUserMessage", "select")
       /\ first \in FirstUserMessages(c.a.threadId) \cup {Null}
       /\ FirstUserMessages(c.a.threadId) # {} => first # Null
       /\ Set(p, IF res.error # NoError
                 THEN IF res.error = NotFound THEN Returns(Logged(c, q), Null)
                      ELSE Throws(Logged(c, q), res.error)
                 ELSE Returns(Logged(c, q), data))
       /\ UNCHANGED <<store, now>>

getSharedThreadByThreadId(p, user, threadId) ==
    /\ Start(p, RequireUser(NewCall("getSharedThreadByThreadId", "select", user,
              [threadId |-> threadId], Null)))
    /\ UNCHANGED <<store, now>>

getSharedThreadByThreadId_select(p, err) ==
    LET c == calls[p]
        res == SelectSingle({r \in shares : r.thread_id = c.a.threadId /\ r.user_id = c.user},
                            err)
    IN /\ At(p, "getSharedThreadByThreadId", "select")
       /\ Set(p, NullIfNotFound(c, res, res.data, Q("select", "shared_threads", res.error)))
       /\ UNCHANGED <<store, now>>

getThreadPersona(p, user, threadId) ==
    /\ Start(p, RequireUser(NewCall("getThreadPersona", "select", user,
              [threadId |-> threadId], Null)))
    /\ UNCHANGED <<store, now>>

\* .single() on a table that holds rows without a key of their own, so that
\* two may be equal: exactly one row, else error PGRST116
SelectSingleOf(rows, err) ==
    IF err # NoError THEN [error |-> err, data |-> Null]
    ELSE IF Len(rows) = 1 THEN [error |-> NoError, data |-> rows[1]]
    ELSE [error |-> NotFound, data |-> Null]

\* the row joined with its persona; data?.personas || null
getThreadPersona_select(p, err) ==
    LET c == calls[p]
        Own(r) == r.thread_id = c.a.threadId /\ r.user_id = c.user
        res == SelectSingleOf(SelectSeq(personas, Own), err)
        data == IF res.data = Null THEN Null ELSE [id |-> res.data.persona_id]
    IN /\ At(p, "getThreadPersona", "select")
       /\ Set(p, NullIfNotFound(c, res, data, Q("select", "thread_personas", res.error)))
       /\ UNCHANGED <<store, now>>

getUserProfile(p, user, userId) ==
    /\ Start(p, NewCall("getUserProfile", "select", user, [userId |-> userId], Null))
    /\ UNCHANGED <<store, now>>

getUserProfile_select(p, err) ==
    LET c == calls[p]
        res == SelectSingle({r \in profiles : r.id = c.a.userId}, err)
    IN /\ At(p, "getUserProfile", "select")
       /\ Set(p, NullIfNotFound(c, res, res.data, Q("select", "profiles", res.error)))
       /\ UNCHANGED <<store, now>>

\* the optional columns of table "profiles"; a column holds None (null) or
\* Some(text)
ProfileColumns == {"username", "full_name", "avatar_url"}

\* profileData?.column || null: a column left out, or given as "", is null
OrNull(profileData, column) ==
    IF column \in DOMAIN profileData /\ profileData[column] # ""
    THEN Some(profileData[column]) ELSE None

\* createUserProfile(userId, profileData): no user is asked for; the row is
\* built, with two readings of the clock (t, then t2), when it is called
createUserProfile(p, user, userId, profileData, t, t2) ==
    /\ t \in Clock
    /\ t2 \in t..MaxTime
    /\ Start(p, NewCall("createUserProfile", "insert", user,
              [userId |-> userId, profileData |-> profileData],
              [created_at |-> t, updated_at |-> t2]))
    /\ now' = t2
    /\ UNCHANGED store

\* .insert({id, username, full_name, avatar_url, created_at, updated_at})
\* .select().single(); if (error) throw error
createUserProfile_insert(p, err) ==
    LET c == calls[p]
        row == [id |-> c.a.userId,
                username |-> OrNull(c.a.profileData, "username"),
                full_name |-> OrNull(c.a.profileData, "full_name"),
                avatar_url |-> OrNull(c.a.profileData, "avatar_url"),
                created_at |-> c.l.created_at,
                updated_at |-> c.l.updated_at]
        res == Insert(profiles, <<row>>, err)
        q == Q("insert", "profiles", res.error)
    IN /\ At(p, "createUserProfile", "insert")
       /\ profiles' = res.table
       /\ Set(p, IF res.error # NoError THEN Throws(Logged(c, q), res.error)
                 ELSE Returns(Logged(c, q), row))
       /\ UNCHANGED <<threads, messages, attachments, personas, shares, prefs, files, now>>

\* updateUserProfile(updates): if (!user) throw ...; the row to upsert is
\* built, reading the clock (t), once the user is known
updateUserProfile(p, user, updates, t) ==
    /\ t \in ClockRead(user # NoUser)
    /\ Start(p, RequireUser(NewCall("updateUserProfile", "upsert", user,
              [updates |-> updates], [updated_at |-> t])))
    /\ now' = t
    /\ UNCHANGED store

\* a profile row nothing has been written to: the optional columns are null
\* and the dates are the store's default (written 0)
BlankProfile(id) ==
    [id |-> id, username |-> None, full_name |-> None, avatar_url |-> None,
     created_at |-> 0, updated_at |-> 0]

\* .upsert({id: user.id, ...updates, updated_at}, {onConflict: "id"})
\* .select().single(): the columns given are written over the user's row, or
\* over a new one; if (error) throw error
updateUserProfile_upsert(p, err) ==
    LET c == calls[p]
        given == [k \in DOMAIN c.a.updates \cup {"id", "updated_at"} |->
                    IF k = "id" THEN c.user
                    ELSE IF k = "updated_at" THEN c.l.updated_at
                    ELSE Some(c.a.updates[k])]
        matched == {r \in profiles : r.id = c.user}
        old == IF matched = {} THEN BlankProfile(c.user) ELSE CHOOSE r \in matched : TRUE
        row == Overwritten(old, given)
        q == Q("upsert", "profiles", err)
    IN /\ At(p, "updateUserProfile", "upsert")
       /\ profiles' = IF err # NoError THEN profiles ELSE (profiles \ matched) \cup {row}
       /\ Set(p, IF err # NoError THEN Throws(Logged(c, q), err)
                 ELSE Returns(Logged(c, q), row))
       /\ UNCHANGED <<threads, messages, attachments, personas, shares, prefs, files, now>>

\* if (!user) throw ..., before the try
getUserPreferences(p, user) ==
    /\ Start(p, RequireUser(NewCall("getUserPreferences", "select", user, Null, Null)))
    /\ UNCHANGED <<store, now>>

\* PreferencesOutcome gone wrong: every error but row-not-found is thrown on
PreferencesPropagated(c, res, q) ==
    IF res.error # NoError /\ res.error # NotFound THEN Throws(Logged(c, q), res.error)
    ELSE Returns(Logged(c, q), res.data)

\* catch (error) { console.warn(...); return null }
PreferencesCaught(c, error) == Returns(c, Null)

\* the try block: 42P01 returns null, any other error but PGRST116 is thrown,
\* into the catch of the same function
PreferencesOutcome(c, res, q) ==
    IF res.error # NoError /\ res.error # NotFound
    THEN IF res.error = TableMissing THEN Returns(Logged(c, q), Null)
         ELSE PreferencesCaught(Logged(c, q), res.error)
    ELSE Returns(Logged(c, q), res.data)

getUserPreferences_select(p, err) ==
    LET c == calls[p]
        res == SelectSingle({r \in prefs : r.user_id = c.user}, err)
    IN /\ At(p, "getUserPreferences", "select")
       /\ Set(p, PreferencesOutcome(c, res, Q("select", "user_preferences", res.error)))
       /\ UNCHANGED <<store, now>>

----------------------------------------------------------------------------
(* Inputs                                                                  *)

UIMessage(id, role, content, createdAt) ==
    [id |-> id, role |-> role, content |-> content, createdAt |-> createdAt,
     parts |-> <<>>]

M1 == MkId("m1", UuidShape, TRUE)
M2 == MkId("m2", UuidShape, TRUE)
M3 == MkId("m3", UuidShape, TRUE)
M4 == MkId("m4", UuidShape, TRUE)
M5 == MkId("m5", UuidShape, TRUE)
BadShape == MkId("msg-abc123", <<3, 6>>, FALSE)
BadDigit == MkId("zzzzzzzz-0000-0000-0000-000000000000", UuidShape, FALSE)

F1 == Upload(Some("a1"), "https://s/f1", "", "", "")
F2 == Upload(None, "", BucketUrl, "", "")
F3 == Upload(Some("a3"), "", "", "", "")

Faults == {NoError, StoreFault}

----------------------------------------------------------------------------
(* Spec: one client creating messages.                                     *)

MaxCalls == 2

Init ==
    /\ threads = {}
    /\ messages = {}
    /\ attachments = {}
    /\ personas = <<>>
    /\ shares = {}
    /\ prefs = {}
    /\ files = {}
    /\ profiles = {}
    /\ ui = NoForm
    /\ now = 1
    /\ calls = [p \in Procs |-> Idle]
    /\ hist = <<>>

SpecMessages ==
    {UIMessage(M1, "user", "hello", Some(1)),
     UIMessage(M1, "user", "edited", None),
     UIMessage(BadShape, "assistant", "hello", Some(2)),
     UIMessage(Undefined, "user", "hello", Some(1))}

SpecUploads == {<<>>, <<F1>>, <<F2, F3>>}
SpecInputs ==
    (SpecMessages \X SpecUploads)
        \cup {<<UIMessage(BadDigit, "system", "hello", Some(1)), <<>> >>,
              <<UIMessage(EmptyString, "user", "hello", Some(1)), <<F1>> >>}
\* who calls createMessage with what
SpecCalls ==
    {<<"u1", in[1], in[2]>> : in \in SpecInputs}
        \cup {<<"u2", UIMessage(M1, "user", "hello", Some(1)), <<>> >>,
              <<"u2", UIMessage(BadShape, "assistant", "hello", Some(2)), <<F1>> >>}

Next ==
    \/ /\ Started < MaxCalls
       /\ \E in \in SpecCalls : createMessage("p1", in[1], "t1", in[2], in[3])
    \/ \E t \in Clock : createMessage_lookup("p1", NoError, t)
    \/ \E t, at \in Clock : createMessage_insert_thread("p1", NoError, t, at)
    \/ \E g \in GeneratedUuids \cup {M1}, t \in Clock : createMessage_upsert("p1", NoError, g, t)
    \/ \E e \in Faults, g \in AttachmentUuids("p1"), t \in Clock : createMessage_attach("p1", e, g, t)
    \/ createMessage_touch("p1", NoError)

Spec == Init /\ [][Next]_vars

----------------------------------------------------------------------------
(* SpecTrail: one client that creates a thread, writes messages, deletes    *)
(* trailing messages and lists the thread.                                  *)

MaxTrailCalls == 3

TrailMessages ==
    {<<"t1", UIMessage(M1, "user", "hello", Some(1))>>,
     <<"t1", UIMessage(M2, "assistant", "edited", Some(2))>>,
     <<"t1", UIMessage(Undefined, "user", "hello", None)>>,
     <<"t2", UIMessage(BadShape, "user", "hello", Some(2))>>}


NextTrail ==
    \/ /\ Started < MaxTrailCalls
       /\ \E project \in {None, Some("pr1")} : createThread("p1", "u1", "t1", project)
    \/ /\ Started < MaxTrailCalls
       /\ \E in \in TrailMessages : createMessage("p1", "u1", in[1], in[2], <<>>)
    \/ /\ Started < MaxTrailCalls
       /\ \E cutoff \in Times, gte \in {None, Some(TRUE), Some(FALSE)} :
             deleteTrailingMessages("p1", "u1", "t1", cutoff, gte)
    \/ getMessagesByThreadId("p1", "u1", "t1")
    \/ createThread_insert("p1", NoError, now)
    \/ \E t \in Clock : createMessage_lookup("p1", NoError, t)
    \/ \E at \in Clock : createMessage_insert_thread("p1", NoError, now, at)
    \/ \E g \in GeneratedUuids \cup {M1, M2}, t \in Clock : createMessage_upsert("p1", NoError, g, t)
    \/ createMessage_touch("p1", NoError)
    \/ deleteTrailingMessages_delete("p1", NoError)
    \/ \E data \in Ascending({r \in messages : r.thread_id = "t1"}) :
          getMessagesByThreadId_select("p1", NoError, data)

SpecTrail == Init /\ [][NextTrail]_vars

----------------------------------------------------------------------------
(* SpecPersona: one client setting and removing the personas of threads.    *)

MaxPersonaCalls == 3
PersonaIds == {"A", "B"}

\* who calls setThreadPersona with what
PersonaCalls ==
    ({"u1"} \X ThreadIds \X PersonaIds) \cup {<<"u2", "t1", "A">>}

NextPersona ==
    \/ /\ Started < MaxPersonaCalls
       /\ \E in \in PersonaCalls : setThreadPersona("p1", in[1], in[2], in[3])
    \/ /\ Started < MaxPersonaCalls
       /\ \E u \in {"u1", "u2"}, id \in ThreadIds : removeThreadPersona("p1", u, id)
    \/ setThreadPersona_lookup("p1", NoError)
    \/ setThreadPersona_insert_thread("p1", NoError, now)
    \/ \E e \in Faults : setThreadPersona_delete("p1", e)
    \/ setThreadPersona_insert("p1", NoError)
    \/ \E e \in Faults : removeThreadPersona_delete("p1", e)

SpecPersona == Init /\ [][NextPersona]_vars

----------------------------------------------------------------------------
(* SpecUpdate: one client editing stored messages.  The store starts with   *)
(* thread t1 of u1 and, in it, a user, an assistant and a system message of *)
(* u1, as createMessage writes them, and an assistant message M4 whose      *)
(* user_id is u2: the row createMessage leaves when the thread is deleted   *)
(* and created again by another user between its lookup and its upsert.     *)

MaxUpdateCalls == 2

StoredMessage(id, threadId, user, role, content, t) ==
    [id |-> id, thread_id |-> threadId, user_id |-> user, parts |-> <<>>,
     role |-> role, content |-> content, created_at |-> t, updated_at |-> 0]

InitUpdate ==
    /\ threads = {ThreadRow("t1", "u1", 1)}
    /\ messages = {StoredMessage(M1, "t1", "u1", "user", "hello", 1),
                   StoredMessage(M2, "t1", "u1", "assistant", "hello", 1),
                   StoredMessage(M3, "t1", "u1", "system", "hello", 1),
                   StoredMessage(M4, "t1", "u2", "assistant", "hello", 1)}
    /\ attachments = {}
    /\ personas = <<>>
    /\ shares = {}
    /\ prefs = {}
    /\ files = {}
    /\ profiles = {}
    /\ ui = NoForm
    /\ now = 1
    /\ calls = [p \in Procs |-> Idle]
    /\ hist = <<>>

\* who calls updateMessageInDatabase for which message
UpdateCalls ==
    {<<"u1", M1>>, <<"u1", M4>>, <<"u1", M5>>,
     <<"u2", M1>>, <<"u2", M2>>, <<"u2", M3>>, <<"u2", M4>>,
     <<NoUser, M1>>}

NextUpdate ==
    \/ /\ Started < MaxUpdateCalls
       /\ \E in \in UpdateCalls : updateMessageInDatabase("p1", in[1], in[2], "edited")
    \/ \E e \in Faults, t \in Clock : updateMessageInDatabase_check("p1", e, t)
    \/ \E e \in Faults, t \in Clock : updateMessageInDatabase_thread_check("p1", e, t)
    \/ updateMessageInDatabase_update_own("p1", NoError)
    \/ updateMessageInDatabase_update_thread("p1", NoError)
    \/ updateMessageInDatabase_verify("p1", NoError)

SpecUpdate == InitUpdate /\ [][NextUpdate]_vars

----------------------------------------------------------------------------
(* SpecRace: client p1 edits a message while client p2, another session of  *)
(* the same user, edits it too or writes it again with createMessage.       *)

MaxRaceCalls == 2

NextRace ==
    \/ /\ Started < MaxRaceCalls
       /\ \E id \in {M1, M4} : updateMessageInDatabase("p1", "u1", id, "edited")
    \/ /\ Started < MaxRaceCalls
       /\ \E id \in {M1, M4} : updateMessageInDatabase("p2", "u1", id, "other")
    \/ /\ Started < MaxRaceCalls
       /\ createMessage("p2", "u1", "t1", UIMessage(M1, "user", "hello", Some(1)), <<>>)
    \/ \E p \in Procs, t \in Clock : updateMessageInDatabase_check(p, NoError, t)
    \/ \E p \in Procs, t \in Clock : updateMessageInDatabase_thread_check(p, NoError, t)
    \/ \E p \in Procs : updateMessageInDatabase_update_own(p, NoError)
    \/ \E p \in Procs : updateMessageInDatabase_update_thread(p, NoError)
    \/ \E p \in Procs, e \in Faults : updateMessageInDatabase_verify(p, e)
    \/ createMessage_lookup("p2", NoError, now)
    \/ createMessage_upsert("p2", NoError, M1, now)
    \/ createMessage_touch("p2", NoError)

SpecRace == InitUpdate /\ [][NextRace]_vars

----------------------------------------------------------------------------
(* SpecAuth: one client, signed in as u1 or not signed in, calling the nine *)
(* writing functions that ask for the user first.  The bucket holds the     *)
(* file the client has uploaded.                                            *)

MaxAuthCalls == 2

InitAuth ==
    /\ threads = {}
    /\ messages = {}
    /\ attachments = {}
    /\ personas = <<>>
    /\ shares = {}
    /\ prefs = {}
    /\ files = {"f2"}
    /\ profiles = {}
    /\ ui = NoForm
    /\ now = 1
    /\ calls = [p \in Procs |-> Idle]
    /\ hist = <<>>

Session == {"u1", NoUser}
Renamed ==
    [title |-> Some("renamed"), description |-> None, is_public |-> None,
     password |-> Some(Pw), expires_at |-> None]

NextAuth ==
    \/ /\ Started < MaxAuthCalls
       /\ \E u \in Session : createThread("p1", u, "t1", Some(""))
    \/ /\ Started < MaxAuthCalls
       /\ \E u \in Session : deleteAllThreads("p1", u)
    \/ /\ Started < MaxAuthCalls
       /\ \E u \in Session :
             createMessage("p1", u, "t1", UIMessage(M1, "user", "hello", Some(1)), <<F2, F3>>)
    \/ /\ Started < MaxAuthCalls
       /\ \E u \in Session :
             createSharedThread("p1", u, "t1", "title", None, None, Some(Pw), None, "k1")
    \/ /\ Started < MaxAuthCalls
       /\ \E u \in Session : updateSharedThread("p1", u, "s1", Renamed, now)
    \/ /\ Started < MaxAuthCalls
       /\ \E u \in Session : deleteSharedThread("p1", u, "s1")
    \/ /\ Started < MaxAuthCalls
       /\ \E u \in Session, a \in PersonaIds : setThreadPersona("p1", u, "t1", a)
    \/ /\ Started < MaxAuthCalls
       /\ \E u \in Session, name \in {"Ann", "Bob"} :
             saveUserPreferences("p1", u, [preferred_name |-> Some(name)])
    \/ /\ Started < MaxAuthCalls
       /\ \E u \in Session : deleteFileAttachment("p1", u, "ga1")
    \/ createThread_insert("p1", NoError, now)
    \/ deleteAllThreads_delete("p1", NoError)
    \/ createMessage_lookup("p1", NoError, now)
    \/ createMessage_insert_thread("p1", NoError, now, now)
    \/ createMessage_upsert("p1", NoError, M1, now)
    \/ \E g \in AttachmentUuids("p1") : createMessage_attach("p1", NoError, g, now)
    \/ createMessage_touch("p1", NoError)
    \/ createSharedThread_digest("p1")
    \/ \E id \in ShareIds : createSharedThread_insert("p1", NoError, id)
    \/ updateSharedThread_digest("p1")
    \/ updateSharedThread_update("p1", NoError)
    \/ deleteSharedThread_delete("p1", NoError)
    \/ setThreadPersona_lookup("p1", NoError)
    \/ setThreadPersona_insert_thread("p1", NoError, now)
    \/ setThreadPersona_delete("p1", NoError)
    \/ setThreadPersona_insert("p1", NoError)
    \/ saveUserPreferences_select("p1", NoError, now)
    \/ saveUserPreferences_update("p1", NoError)
    \/ \E id \in PrefIds : saveUserPreferences_insert("p1", NoError, id)
    \/ deleteFileAttachment_select("p1", NoError)
    \/ deleteFileAttachment_remove("p1", NoError)
    \/ deleteFileAttachment_delete("p1", NoError)

SpecAuth == InitAuth /\ [][NextAuth]_vars

----------------------------------------------------------------------------
(* Properties of createMessage, checked under Spec.  cur is the call of    *)
(* client p1 (in flight or just finished), last the call it made before.   *)

cur == calls["p1"]
last == IF Len(hist) > 0 THEN hist[Len(hist)] ELSE Idle

RowsWithId(table, id) == {r \in table : r.id = id}
QueriesOn(c, verb, table) == {i \in DOMAIN c.log : c.log[i].verb = verb /\ c.log[i].table = table}
WellFormed(id) == id.groups = <<8, 4, 4, 4, 12>> /\ id.hex

\* cur repeats last: the same user, thread id, well-formed message id and content
IsRetry ==
    /\ cur.op = "createMessage" /\ last.op = "createMessage"
    /\ cur.user = last.user
    /\ cur.a.threadId = last.a.threadId
    /\ cur.a.message.id = last.a.message.id
    /\ WellFormed(cur.a.message.id)
    /\ cur.a.message.content = last.a.message.content

\* C1: when a createMessage call that returned is repeated with the same
\* thread id, the same well-formed message id and the same content, the
\* second call returns as well (no duplicate-key or conflict error), and
\* exactly one row of messages has that id, with that content.
C1_RetryIsIdempotent ==
    (IsRetry /\ last.out = "returned" /\ cur.pc = "done") =>
        /\ cur.out = "returned"
        /\ cur.err = NoError /\ last.err = NoError
        /\ Cardinality(RowsWithId(messages, cur.a.message.id)) = 1
        /\ \A r \in RowsWithId(messages, cur.a.message.id) :
              r.content = cur.a.message.content /\ r.thread_id = cur.a.threadId

C1_Witness ==
    /\ IsRetry /\ last.out = "returned" /\ cur.pc = "done"
    /\ cur.a.fileAttachments = <<F1>> /\ last.a.fileAttachments = <<F1>>
    /\ RowsWithId(messages, M1) # {}

\* the columns of thread rows that createMessage's last step leaves alone
Identity(rows) == {[id |-> r.id, user_id |-> r.user_id, title |-> r.title] : r \in rows}

\* the rows of the caller with the thread id of the call, as the call found them
OwnThreadRows(c) == {r \in c.pre.threads : r.id = c.a.threadId /\ r.user_id = c.user}

\* C2: a createMessage call whose caller has no thread row with the given id
\* issues exactly one insert of one thread row (that id, title "New Chat",
\* owner the caller); the row is in the table, and is the only new one, when
\* the message row is written, and the message upsert comes after the insert.
\* A call whose caller owns a row with that id issues no thread insert and
\* adds no thread row.
C2_ThreadInsertedOnceBeforeMessage ==
    (cur.op = "createMessage" /\ cur.user # NoUser
        /\ QueriesOn(cur, "select", "threads") # {}) =>
        LET inserts == QueriesOn(cur, "insert", "threads")
            upserts == QueriesOn(cur, "upsert", "messages")
            added == Identity(threads) \ Identity(cur.pre.threads)
            new == [id |-> cur.a.threadId, user_id |-> cur.user, title |-> "New Chat"]
        IN /\ OwnThreadRows(cur) = {} =>
                /\ cur.pc = "insert_thread" => inserts = {} /\ upserts = {}
                /\ cur.pc # "insert_thread" => Cardinality(inserts) = 1
                /\ \A i \in inserts : \A j \in upserts : i < j
                /\ \A i \in inserts :
                      IF cur.log[i].error = NoError
                      THEN added = {new}
                           /\ Identity(cur.pre.threads) \subseteq Identity(threads)
                      ELSE cur.out = "threw" /\ upserts = {} /\ added = {}
                /\ cur.pc = "upsert" => messages = cur.pre.messages /\ added = {new}
           /\ OwnThreadRows(cur) # {} =>
                /\ inserts = {}
                /\ Identity(threads) = Identity(cur.pre.threads)
                /\ Cardinality(threads) = Cardinality(cur.pre.threads)

\* a call that found the thread its caller's previous call had inserted:
\* both have written their message
C2_Witness ==
    /\ cur.op = "createMessage" /\ cur.out = "returned"
    /\ OwnThreadRows(cur) # {} /\ QueriesOn(cur, "insert", "threads") = {}
    /\ QueriesOn(cur, "upsert", "messages") # {}
    /\ last.op = "createMessage" /\ last.out = "returned"
    /\ OwnThreadRows(last) = {} /\ QueriesOn(last, "insert", "threads") # {}
    /\ Cardinality(threads) = 1

\* the message upsert of call c has succeeded
MessageWritten(c) ==
    \E i \in QueriesOn(c, "upsert", "messages") : c.log[i].error = NoError

\* C3: when the message id given to createMessage is absent or not of the
\* 8-4-4-4-12 hexadecimal shape, the row is stored under a well-formed id that
\* is not the given one and that no stored row had, and the call does not
\* throw for it (a call that throws has failed on a query of the threads
\* table); a well-formed given id is the id of the stored row; and every
\* attachment row the call inserts carries the id of the stored message row.
C3_MessageIdResolved ==
    (cur.op = "createMessage" /\ cur.user # NoUser) =>
        LET given == cur.a.message.id
            id == cur.l.messageId
        IN /\ MessageWritten(cur) =>
                /\ WellFormed(id)
                /\ \E r \in messages :
                      /\ r.id = id /\ r.content = cur.a.message.content
                      /\ r.role = cur.a.message.role /\ r.thread_id = cur.a.threadId
                /\ WellFormed(given) => id = given
                /\ ~WellFormed(given) =>
                      id # given /\ RowsWithId(cur.pre.messages, id) = {}
           /\ \A r \in attachments \ cur.pre.attachments :
                 MessageWritten(cur) /\ r.message_id = id
           /\ cur.out = "threw" =>
                 /\ ~MessageWritten(cur)
                 /\ cur.log[Len(cur.log)].table = "threads"
                 /\ cur.log[Len(cur.log)].error = cur.err
           /\ (cur.pc = "done" /\ QueriesOn(cur, "upsert", "messages") # {}) =>
                 cur.out = "returned"

\* a call given a malformed id has returned, after one given no id: each has
\* stored its row under a generated id, the later one with an attachment row
C3_Witness ==
    /\ cur.op = "createMessage" /\ cur.out = "returned"
    /\ cur.a.message.id = BadShape /\ cur.l.messageId \in GeneratedUuids
    /\ attachments \ cur.pre.attachments # {}
    /\ last.op = "createMessage" /\ last.out = "returned"
    /\ last.a.message.id = Undefined /\ last.l.messageId \in GeneratedUuids
    /\ Cardinality(messages) = 2

\* the insert of attachment rows of call c has failed
AttachFailed(c) ==
    \E i \in QueriesOn(c, "insert", "file_attachments") : c.log[i].error # NoError

\* C9: when the insert of attachment rows fails inside createMessage, the call
\* does not throw: it goes on to update the thread's last_message_at (to the
\* message's createdAt, or to the time then read when it has none) and
\* returns; the message row it wrote stays stored, and no attachment row is
\* added.
C9_AttachmentFailureSwallowed ==
    (cur.op = "createMessage" /\ AttachFailed(cur)) =>
        /\ cur.pc \in {"touch", "done"}
        /\ cur.out # "threw" /\ cur.err = NoError
        /\ cur.l.attachError # NoError
        /\ \E r \in messages :
              /\ r.id = cur.l.messageId /\ r.content = cur.a.message.content
              /\ r.created_at = cur.l.createdAt
        /\ attachments = cur.pre.attachments
        /\ cur.pc = "done" =>
              /\ cur.out = "returned"
              /\ cur.log[Len(cur.log)] = Q("update", "threads", NoError)
              /\ \A i \in QueriesOn(cur, "insert", "file_attachments") : i < Len(cur.log)
              /\ \E r \in threads : r.id = cur.a.threadId
              /\ \A r \in threads :
                    r.id = cur.a.threadId =>
                       /\ r.last_message_at = cur.l.lastMessageAt
                       /\ cur.a.message.createdAt # None =>
                             Some(r.last_message_at) = cur.a.message.createdAt
                       /\ r.last_message_at >= cur.l.createdAt

\* the call has returned although the store refused its attachment rows, and
\* the thread row, inserted at time 1, now carries the message's time 2
C9_Witness ==
    /\ cur.op = "createMessage" /\ cur.out = "returned" /\ AttachFailed(cur)
    /\ cur.l.attachError = StoreFault
    /\ cur.pre.threads = {}
    /\ \E r \in threads : r.id = cur.a.threadId /\ r.last_message_at = 2
    /\ \E r \in messages : r.id = cur.l.messageId /\ r.created_at = 2

----------------------------------------------------------------------------
(* Properties of deleteTrailingMessages and getMessagesByThreadId, checked  *)
(* under SpecTrail.                                                         *)

\* C6: deleteTrailingMessages(threadId, cutoff, gte) removes the messages of
\* that thread whose created_at is >= cutoff when gte is true or not given,
\* and > cutoff when gte is false, and no other row: older messages of the
\* thread, the message at the cutoff when gte is false, and the messages of
\* other threads stay as they were, and so do the threads.
C6_TrailingRemovedExactly ==
    (cur.op = "deleteTrailingMessages" /\ cur.pc = "done") =>
        LET before == cur.pre.messages
            T == cur.a.threadId
            cutoff == cur.a.createdAt
            inclusive == cur.a.gte \in {None, Some(TRUE)}
        IN /\ cur.out = "returned"
           /\ messages \subseteq before
           /\ \A r \in before :
                 /\ r.thread_id # T => r \in messages
                 /\ r.created_at < cutoff => r \in messages
                 /\ (r.thread_id = T /\ r.created_at > cutoff) => r \notin messages
                 /\ (r.thread_id = T /\ r.created_at = cutoff) =>
                       (r \in messages <=> ~inclusive)
           /\ threads = cur.pre.threads

\* with the flag left out, the call has removed the message at the cutoff and
\* kept an older one of the thread
C6_Witness ==
    /\ cur.op = "deleteTrailingMessages" /\ cur.pc = "done" /\ cur.a.gte = None
    /\ \E r \in cur.pre.messages :
          r.thread_id = "t1" /\ r.created_at = cur.a.createdAt /\ r \notin messages
    /\ \E r \in messages : r.thread_id = "t1" /\ r.created_at < cur.a.createdAt

\* with gte false, the call has kept the message at the cutoff and one of
\* another thread that is later than the cutoff
C6_WitnessExclusive ==
    /\ cur.op = "deleteTrailingMessages" /\ cur.pc = "done" /\ cur.a.gte = Some(FALSE)
    /\ \E r \in messages : r.thread_id = "t1" /\ r.created_at = cur.a.createdAt
    /\ \E r \in messages : r.thread_id = "t2" /\ r.created_at > cur.a.createdAt

\* the writing calls before the last one
earlier(n) == IF Len(hist) >= n THEN hist[Len(hist) - n + 1] ELSE Idle
Listed(T) ==
    cur.op = "getMessagesByThreadId" /\ cur.out = "returned" /\ cur.a.threadId = T

\* c is a createMessage(T, M) that returned, M of role user
WroteUserMessage(c, T) ==
    /\ c.op = "createMessage" /\ c.out = "returned"
    /\ c.a.threadId = T /\ c.a.message.role = "user"
Created(c, T) == c.op = "createThread" /\ c.out = "returned" /\ c.a.id = T

\* C7: after createThread(T) and one createMessage(T, M) that returned, with
\* role user and content c, getMessagesByThreadId(T) returns exactly one row,
\* of role user and content c; after a deleteTrailingMessages(T, created_at
\* of M) with the inclusive comparison, getMessagesByThreadId(T) returns the
\* empty list.
C7_CreateListDeleteList ==
    /\ (Listed("t1") /\ WroteUserMessage(earlier(1), "t1") /\ Created(earlier(2), "t1")) =>
          /\ Len(cur.ret) = 1
          /\ cur.ret[1].role = "user"
          /\ cur.ret[1].content = earlier(1).a.message.content
          /\ cur.ret[1].id = earlier(1).l.messageId
    /\ (Listed("t1") /\ earlier(1).op = "deleteTrailingMessages"
            /\ earlier(1).out = "returned" /\ earlier(1).a.threadId = "t1"
            /\ earlier(1).a.gte \in {None, Some(TRUE)}
            /\ WroteUserMessage(earlier(2), "t1")
            /\ earlier(1).a.createdAt = earlier(2).l.createdAt
            /\ Created(earlier(3), "t1")) =>
          cur.ret = <<>>

\* the whole scenario has run: the list was empty after the delete, and the
\* message was in the table when the delete started
C7_Witness ==
    /\ Listed("t1") /\ cur.ret = <<>>
    /\ earlier(1).op = "deleteTrailingMessages" /\ earlier(1).out = "returned"
    /\ WroteUserMessage(earlier(2), "t1") /\ Created(earlier(3), "t1")
    /\ earlier(1).a.createdAt = earlier(2).l.createdAt
    /\ \E r \in earlier(1).pre.messages :
          r.id = earlier(2).l.messageId /\ r.content = "hello" /\ r.role = "user"

----------------------------------------------------------------------------
(* Properties of setThreadPersona, checked under SpecPersona.               *)

PersonasOf(T, u) == SelectSeq(personas, LAMBDA r : r.thread_id = T /\ r.user_id = u)
Faultless(c) == \A i \in DOMAIN c.log : c.log[i].error \in {NoError, NotFound}

\* C4: when setThreadPersona(T, A) has returned and the same user then calls
\* setThreadPersona(T, B), which returns (no query of either call failing),
\* thread_personas holds exactly one row for that thread and user, and its
\* persona is B.
C4_SecondPersonaReplacesFirst ==
    (/\ cur.op = "setThreadPersona" /\ cur.out = "returned" /\ Faultless(cur)
     /\ last.op = "setThreadPersona" /\ last.out = "returned" /\ Faultless(last)
     /\ cur.user = last.user /\ cur.a.threadId = last.a.threadId) =>
        /\ Len(PersonasOf(cur.a.threadId, cur.user)) = 1
        /\ PersonasOf(cur.a.threadId, cur.user)[1].persona_id = cur.a.personaId
        /\ cur.ret.persona_id = cur.a.personaId

\* persona A, then persona B for the same thread and user, while another
\* thread keeps its own persona row
C4_Witness ==
    /\ cur.op = "setThreadPersona" /\ cur.out = "returned" /\ Faultless(cur)
    /\ last.op = "setThreadPersona" /\ last.out = "returned" /\ Faultless(last)
    /\ cur.user = last.user /\ cur.a.threadId = last.a.threadId
    /\ last.a.personaId = "A" /\ cur.a.personaId = "B"
    /\ Len(personas) = 2

----------------------------------------------------------------------------
(* Properties of updateMessageInDatabase                                    *)

\* the message call c is about, as the call found it
Target(c) == RowsWithId(c.pre.messages, c.a.messageId)
\* the caller of c owned neither that message nor its thread
Stranger(c) ==
    \A r \in Target(c) :
        /\ r.user_id # c.user
        /\ ~\E th \in c.pre.threads : th.id = r.thread_id /\ th.user_id = c.user

\* C5 (under SpecUpdate): a call of updateMessageInDatabase by a user who is
\* neither the owner of the message nor the owner of its thread returns false
\* and issues no update: the messages table is as the call found it, whatever
\* the role of the message.
C5_StrangerCannotEdit ==
    (cur.op = "updateMessageInDatabase" /\ cur.user # NoUser
        /\ Target(cur) # {} /\ Stranger(cur)) =>
        /\ messages = cur.pre.messages
        /\ QueriesOn(cur, "update", "messages") = {}
        /\ cur.pc \notin {"update_own", "update_thread", "verify"}
        /\ cur.pc = "done" => cur.out = "returned" /\ cur.ret = FALSE

\* u2 has been refused the assistant message of u1 by the thread check, after
\* being refused u1's system message
C5_Witness ==
    /\ cur.op = "updateMessageInDatabase" /\ cur.pc = "done" /\ cur.user = "u2"
    /\ cur.a.messageId = M2 /\ Stranger(cur)
    /\ cur.log = <<Q("select", "messages", NoError), Q("select", "threads", NotFound)>>
    /\ last.op = "updateMessageInDatabase" /\ last.user = "u2" /\ last.a.messageId = M3
    /\ \A r \in messages : r.content = "hello"

\* call c is an updateMessageInDatabase that has returned true
ReturnedTrue(c) == c.op = "updateMessageInDatabase" /\ c.pc = "done" /\ c.ret = TRUE

\* client p takes the last step of updateMessageInDatabase: the re-read
Rereads(p) ==
    /\ calls[p].op = "updateMessageInDatabase" /\ calls[p].pc = "verify"
    /\ calls'[p].pc = "done"

\* C10 (under SpecRace): updateMessageInDatabase returns true only from its
\* re-read, made after its update has changed a row to the new content, and
\* the re-read makes it return true exactly when it does not fail and the row
\* then stored under the id has the new content; when the re-read fails or
\* finds other content (another writer has changed the row since the update)
\* the call returns false.
C10_TrueOnlyIfRereadMatches ==
    /\ [](\A p \in Procs : ReturnedTrue(calls[p]) =>
            LET c == calls[p]
            IN /\ Len(c.log) >= 3
               /\ c.log[Len(c.log)] = Q("select", "messages", NoError)
               /\ c.log[Len(c.log) - 1] = Q("update", "messages", NoError)
               /\ c.l.updatedData # {}
               /\ \A r \in c.l.updatedData :
                     r.id = c.a.messageId /\ r.content = c.a.newContent)
    /\ [][\A p \in Procs : Rereads(p) =>
            (calls'[p].ret = TRUE <=>
                /\ calls'[p].log[Len(calls'[p].log)].error = NoError
                /\ \E r \in messages :
                      r.id = calls[p].a.messageId /\ r.content = calls[p].a.newContent)]_vars

\* p1's update went through and its re-read did not fail, yet it returned
\* false: p2 had written the row in between
C10_Witness ==
    /\ calls["p1"].op = "updateMessageInDatabase" /\ calls["p1"].pc = "done"
    /\ calls["p1"].ret = FALSE
    /\ calls["p1"].log = <<Q("select", "messages", NoError),
                           Q("update", "messages", NoError),
                           Q("select", "messages", NoError)>>
    /\ \E r \in messages : r.id = calls["p1"].a.messageId /\ r.content = "other"

----------------------------------------------------------------------------
(* Property of the functions that ask for the user first, checked under     *)
(* SpecAuth.                                                                *)

OwnedWrites ==
    {"createThread", "deleteAllThreads", "createMessage", "createSharedThread",
     "updateSharedThread", "deleteSharedThread", "setThreadPersona",
     "saveUserPreferences", "deleteFileAttachment"}

\* C8: with no authenticated user, each of the nine functions throws "User not
\* authenticated" at once: it has issued no store query, and every table and
\* the bucket are as the call found them.
C8_UnauthenticatedWritesNothing ==
    (cur.op \in OwnedWrites /\ cur.user = NoUser) =>
        /\ cur.pc = "done" /\ cur.out = "threw" /\ cur.err = NotAuthenticated
        /\ cur.log = <<>>
        /\ Tables = cur.pre

\* the call without a user was made on a store that holds a thread, a
\* message and an attachment row written by the call before
C8_Witness ==
    /\ cur.op \in OwnedWrites /\ cur.user = NoUser /\ cur.out = "threw"
    /\ cur.op = "deleteAllThreads"
    /\ last.op = "createMessage" /\ last.user = "u1" /\ last.out = "returned"
    /\ threads # {} /\ messages # {} /\ attachments # {}

----------------------------------------------------------------------------
(* SpecHydrate: one client that writes messages with uploads and lists the *)
(* thread while the file host answers, refuses or cannot be reached, fetch *)
(* by fetch.                                                               *)

MaxHydrateCalls == 2

\* uploads that carry their text already
F4 == Upload(Some("a4"), BucketUrl, "", "cached", "")
F5 == Upload(Some("a5"), "https://s/f1", "", "", "extracted")
\* a second upload at the URL of F1
F6 == Upload(Some("a6"), "https://s/f1", "", "", "")

WithText(message) == [message EXCEPT !.parts = <<[type |-> "text"]>>]

HydrateCalls ==
    {<<UIMessage(M1, "user", "hello", Some(1)), <<F1, F4>> >>,
     <<WithText(UIMessage(M2, "assistant", "edited", Some(2))), <<F5, F2>> >>,
     <<WithText(UIMessage(M3, "user", "hello", Some(1))), <<>> >>,
     <<UIMessage(M4, "user", "two files", Some(2)), <<F1, F6>> >>}

NextHydrate ==
    \/ /\ Started < MaxHydrateCalls
       /\ \E in \in HydrateCalls : createMessage("p1", "u1", "t1", in[1], in[2])
    \/ getMessagesByThreadId("p1", "u1", "t1")
    \/ createMessage_lookup("p1", NoError, now)
    \/ createMessage_insert_thread("p1", NoError, now, now)
    \/ \E g \in {M1, M2, M3, M4} : createMessage_upsert("p1", NoError, g, now)
    \/ \E g \in AttachmentUuids("p1") : createMessage_attach("p1", NoError, g, now)
    \/ createMessage_touch("p1", NoError)
    \/ \E e \in Faults, data \in Ascending({r \in messages : r.thread_id = "t1"}) :
          getMessagesByThreadId_select("p1", e, data)
    \/ \E pos \in FetchesAt("p1", "pending"),
          response \in {"reading", "http_error", "network_error"} :
          getMessagesByThreadId_fetch("p1", pos, response)
    \/ \E pos \in FetchesAt("p1", "reading"), outcome \in {"ok", "body_error"} :
          getMessagesByThreadId_text("p1", pos, outcome)
    \/ /\ Started < MaxHydrateCalls
       /\ deleteThread("p2", "u2", "t1")
    \/ deleteThread_delete("p2", NoError)

SpecHydrate == Init /\ [][NextHydrate]_vars

\* m is message d but for its parts
SameButParts(m, d) == [m EXCEPT !.parts = d.parts] = d

\* C11: when the store query of getMessagesByThreadId has succeeded, the call
\* returns whatever the fetches do. The result has the messages of the query
\* result, in its order, which is ascending in created_at; a part that is not
\* a file_attachments part is unchanged; an attachment that carries content
\* or extractedText is unchanged and was not fetched; an attachment whose
\* fetch failed is unchanged, so without content.
C11_FetchFailureTolerated ==
    (cur.op = "getMessagesByThreadId" /\ cur.pc = "done"
        /\ cur.log[Len(cur.log)].error = NoError) =>
    LET data == cur.l.data
        ret == cur.ret
    IN /\ cur.out = "returned"
       /\ DOMAIN ret = DOMAIN data
       /\ \A i \in DOMAIN data :
            /\ SameButParts(ret[i], data[i])
            /\ DOMAIN ret[i].parts = DOMAIN data[i].parts
            /\ \A j \in DOMAIN data[i].parts :
                  IF data[i].parts[j].type = "file_attachments"
                  THEN /\ ret[i].parts[j].type = "file_attachments"
                       /\ DOMAIN ret[i].parts[j].attachments
                             = DOMAIN data[i].parts[j].attachments
                  ELSE ret[i].parts[j] = data[i].parts[j]
       /\ \A i, j \in DOMAIN data : i < j => data[i].created_at <= data[j].created_at
       /\ \A pos \in AttachmentsIn(data) :
            LET a == AttachmentAt(data, pos)
                r == AttachmentAt(ret, pos)
            IN /\ (a.content # "" \/ a.extractedText # "") =>
                     r = a /\ pos \notin cur.l.fetched
               /\ (pos \in cur.l.fetched /\ cur.l.fetch[pos] # "ok") =>
                     r = a /\ r.content = ""

\* a listing of two messages returned with one fetch refused, one attachment
\* that carried its content and one that was fetched
C11_Witness ==
    /\ cur.op = "getMessagesByThreadId" /\ cur.out = "returned"
    /\ Len(cur.ret) = 2
    /\ \E pos \in cur.l.fetched :
          cur.l.fetch[pos] \in {"http_error", "network_error"}
    /\ \E pos \in AttachmentsIn(cur.l.data) : AttachmentAt(cur.l.data, pos).content = "cached"
    /\ \E pos \in AttachmentsIn(cur.l.data) :
          AttachmentAt(cur.l.data, pos).extractedText = "extracted"

\* two attachments at one URL, each with a fetch of its own: the first was
\* answered 2xx and carries the content, the second was refused and is as
\* it was stored
C11_WitnessSameUrl ==
    /\ cur.op = "getMessagesByThreadId" /\ cur.out = "returned"
    /\ \E a, b \in cur.l.fetched :
          /\ a # b
          /\ AttachmentAt(cur.l.data, a).fileUrl = AttachmentAt(cur.l.data, b).fileUrl
          /\ cur.l.fetch[a] = "ok" /\ cur.l.fetch[b] = "http_error"
          /\ AttachmentAt(cur.ret, a).content = "content of f1"
          /\ AttachmentAt(cur.ret, b) = AttachmentAt(cur.l.data, b)

----------------------------------------------------------------------------
(* SpecLookup: one client, signed in as u1 or u2, that writes a message, a  *)
(* share, a persona and preferences as u1, creates and updates profiles and *)
(* looks single rows up, while the store answers, fails or has no such      *)
(* table; the delete of a persona row may fail, so that a thread comes to   *)
(* have two.  u1 has a profile.                                             *)

MaxLookupCalls == 2

InitLookup ==
    /\ threads = {}
    /\ messages = {}
    /\ attachments = {}
    /\ personas = <<>>
    /\ shares = {}
    /\ prefs = {}
    /\ files = {}
    /\ profiles = {[BlankProfile("u1") EXCEPT !.username = Some("ann"),
                                           !.full_name = Some("Ann")]}
    /\ ui = NoForm
    /\ now = 1
    /\ calls = [p \in Procs |-> Idle]
    /\ hist = <<>>

LookupFaults == {NoError, StoreFault, TableMissing}
LookupOps ==
    {"getFirstUserMessage", "getSharedThreadByThreadId", "getThreadPersona",
     "getUserProfile", "getUserPreferences"}

NextLookup ==
    \/ /\ Started < MaxLookupCalls
       /\ \E m \in {<<M1, "user">>, <<M2, "assistant">>} :
             createMessage("p1", "u1", "t1", UIMessage(m[1], m[2], "hello", Some(1)), <<>>)
    \/ /\ Started < MaxLookupCalls
       /\ createSharedThread("p1", "u1", "t1", "title", None, None, None, None, "k1")
    \/ /\ Started < MaxLookupCalls
       /\ setThreadPersona("p1", "u1", "t1", "A")
    \/ /\ Started < MaxLookupCalls
       /\ saveUserPreferences("p1", "u1", [preferred_name |-> Some("Ann")])
    \/ /\ Started < MaxLookupCalls
       /\ \E id \in Users :
             createUserProfile("p1", "u1", id, [full_name |-> "", avatar_url |-> "https://s/bob.png"],
                               now, now)
    \/ /\ Started < MaxLookupCalls
       /\ \E u \in Users : updateUserProfile("p1", u, [username |-> "bob"], now)
    \/ \E u \in Users, t \in ThreadIds : getFirstUserMessage("p1", u, t)
    \/ \E u \in Users, t \in ThreadIds : getSharedThreadByThreadId("p1", u, t)
    \/ \E u \in Users, t \in ThreadIds : getThreadPersona("p1", u, t)
    \/ \E u \in Users, id \in Users : getUserProfile("p1", u, id)
    \/ \E u \in Users : getUserPreferences("p1", u)
    \/ createMessage_lookup("p1", NoError, now)
    \/ createMessage_insert_thread("p1", NoError, now, now)
    \/ \E g \in {M1, M2} : createMessage_upsert("p1", NoError, g, now)
    \/ createMessage_touch("p1", NoError)
    \/ \E id \in ShareIds : createSharedThread_insert("p1", NoError, id)
    \/ setThreadPersona_lookup("p1", NoError)
    \/ setThreadPersona_insert_thread("p1", NoError, now)
    \/ \E e \in {NoError, StoreFault} : setThreadPersona_delete("p1", e)
    \/ setThreadPersona_insert("p1", NoError)
    \/ saveUserPreferences_select("p1", NoError, now)
    \/ saveUserPreferences_update("p1", NoError)
    \/ \E id \in PrefIds : saveUserPreferences_insert("p1", NoError, id)
    \/ createUserProfile_insert("p1", NoError)
    \/ \E e \in {NoError, StoreFault} : updateUserProfile_upsert("p1", e)
    \/ \E e \in LookupFaults, first \in messages \cup {Null} :
          getFirstUserMessage_select("p1", e, first)
    \/ \E e \in LookupFaults : getSharedThreadByThreadId_select("p1", e)
    \/ \E e \in LookupFaults : getThreadPersona_select("p1", e)
    \/ \E e \in LookupFaults : getUserProfile_select("p1", e)
    \/ \E e \in LookupFaults : getUserPreferences_select("p1", e)

SpecLookup == InitLookup /\ [][NextLookup]_vars

\* the outcome the store gave the lookup cur has finished
Reported == cur.log[Len(cur.log)].error
LookedUp(op) == cur.op = op /\ cur.pc = "done" /\ Len(cur.log) = 1
OwnPrefs == {r \in prefs : r.user_id = cur.user}

\* C12: getUserPreferences of a signed-in user returns null, and does not
\* throw, when the store reports that the table does not exist (42P01), and
\* returns null when the store answers and holds no preferences row of the
\* user (it returns the row when there is one).
C12_NullWithoutTableOrRow ==
    LookedUp("getUserPreferences") =>
        /\ Reported = TableMissing => cur.out = "returned" /\ cur.ret = Null
        /\ (Reported \in {NoError, NotFound} /\ OwnPrefs = {}) =>
              cur.out = "returned" /\ cur.ret = Null
        /\ (Reported = NoError /\ OwnPrefs # {}) =>
              cur.out = "returned" /\ cur.ret \in OwnPrefs

\* the table is reported missing to a user whose row another query had written
C12_Witness ==
    /\ LookedUp("getUserPreferences") /\ Reported = TableMissing
    /\ cur.out = "returned" /\ cur.ret = Null
    /\ OwnPrefs # {}

\* the user has no row
C12_WitnessNoRow ==
    /\ LookedUp("getUserPreferences") /\ Reported = NotFound
    /\ cur.out = "returned" /\ cur.ret = Null
    /\ prefs # {} /\ OwnPrefs = {}

\* lookup cur returned null if the store reported row-not-found and threw the
\* store's error, as it is, if it reported an error not in `tolerated`
NullOrPropagated(tolerated) ==
    /\ Reported = NotFound => cur.out = "returned" /\ cur.ret = Null
    /\ Reported \notin {NoError, NotFound} \cup tolerated =>
          cur.out = "threw" /\ cur.err = Reported

\* C13, as stated: each of the five lookups returns null when the store
\* reports row-not-found and throws any other store error on to its caller
\* (getUserPreferences: any other than row-not-found and 42P01).
C13_LookupsPropagate ==
    \A op \in LookupOps :
        LookedUp(op) =>
            NullOrPropagated(IF op = "getUserPreferences" THEN {TableMissing} ELSE {})

\* C13, for the four lookups other than getUserPreferences
C13_OtherLookupsPropagate ==
    \A op \in LookupOps \ {"getUserPreferences"} : LookedUp(op) => NullOrPropagated({})

\* a thread has two persona rows of the user (the delete of the first
\* failed before the second was inserted): row-not-found, and null
C13_WitnessTwoRows ==
    /\ LookedUp("getThreadPersona") /\ Reported = NotFound
    /\ cur.out = "returned" /\ cur.ret = Null
    /\ \E i, j \in DOMAIN personas :
          /\ i # j
          /\ personas[i].thread_id = cur.a.threadId /\ personas[i].user_id = cur.user
          /\ personas[j].thread_id = cur.a.threadId /\ personas[j].user_id = cur.user

\* getThreadPersona is refused by the store although the persona is set
C13_Witness ==
    /\ LookedUp("getThreadPersona") /\ Reported = StoreFault
    /\ cur.out = "threw" /\ cur.err = StoreFault
    /\ \E i \in DOMAIN personas :
          personas[i].thread_id = cur.a.threadId /\ personas[i].user_id = cur.user

\* getUserPreferences returns null although the store has failed
C13_PreferencesSwallowed ==
    /\ LookedUp("getUserPreferences") /\ Reported = StoreFault
    /\ cur.out = "returned" /\ cur.ret = Null

----------------------------------------------------------------------------
(* APIKeyForm (src/unnamed/part_000).  ui holds the component's state, the  *)
(* key store's state (useAPIKeyStore: keys, isLoading, error,               *)
(* hasInitialized) and what the handlers are waiting for.  A handler runs   *)
(* up to its next await in one action; the state updates of one run are     *)
(* rendered together, and the effects whose dependencies changed run with   *)
(* that render.  Nothing keeps a handler from being started while another   *)
(* run of it waits: the requests in flight (inflight), the clears under way *)
(* (clears) and the re-reads set (sync) are counted, two alike being two.   *)

Providers == {"openai", "google", "openrouter"}
NoKeys == [p \in Providers |-> ""]

\* what a field can hold, and String.prototype.trim() of it
Texts == {"", " ", " a ", "old"}
Trim(text) == IF text = " " THEN "" ELSE IF text = " a " THEN "a" ELSE text

\* getKey(provider) || "" for the three providers
StoreKeys(u) == [p \in Providers |-> u.keys[p]]

\* which of the four returns of the render function is taken
View(u) ==
    IF (u.isLoading \/ u.storeLoading) /\ ~u.showForceLoad /\ ~u.storeError THEN "loading"
    ELSE IF (u.isLoading \/ u.storeLoading) /\ u.showForceLoad /\ ~u.storeError
         THEN "forceLoad"
    ELSE IF u.storeError THEN "error"
    ELSE "form"

\* the effect on [storeHasInitialized, getKey]
Synced(u, v) ==
    IF v.storeHasInitialized /\ ~u.storeHasInitialized
    THEN [v EXCEPT !.fields = StoreKeys(v), !.isLoading = FALSE]
    ELSE v

\* the effect on [isLoading, storeLoading, getKey]: its cleanup clears both
\* timeouts, and both are set again if the form is loading
Rearmed(u, v) ==
    IF v.isLoading # u.isLoading \/ v.storeLoading # u.storeLoading
    THEN [v EXCEPT !.timers = IF v.isLoading \/ v.storeLoading THEN "both" ELSE "none"]
    ELSE v

\* the state after the render that follows an update from u to v
Rendered(u, v) == Rearmed(u, Synced(u, v))

\* useState's initial values, over a key store
Mounted(keys, storeLoading, storeHasInitialized) ==
    [mounted |-> TRUE, fields |-> NoKeys, isSaving |-> FALSE, isLoading |-> TRUE,
     showForceLoad |-> FALSE, keys |-> keys, storeLoading |-> storeLoading,
     storeError |-> FALSE, storeHasInitialized |-> storeHasInitialized,
     init |-> "start", timers |-> "both", events |-> 0,
     save |-> [pc |-> "idle", fields |-> NoKeys, called |-> {}, outcome |-> "none"],
     inflight |-> EmptyBag, sync |-> 0, retry |-> FALSE, clears |-> EmptyBag,
     clear |-> [pc |-> "idle", provider |-> "openai", outcome |-> "none"],
     cleanups |-> 0, toast |-> "none"]

\* initializeForm on mount, up to its await or, when the store is loading or
\* loaded already, to its end; loadKeys() turns the store's isLoading on
Initialized(u) ==
    IF ~u.storeHasInitialized /\ ~u.storeLoading
    THEN [u EXCEPT !.storeLoading = TRUE, !.init = "awaiting"]
    ELSE [u EXCEPT !.fields = StoreKeys(u), !.isLoading = FALSE, !.init = "done"]

\* the form after its first render and the effects of it
FirstRender(keys, storeLoading, storeHasInitialized) ==
    LET u == Mounted(keys, storeLoading, storeHasInitialized)
        v == Initialized(u)
        w == IF v.storeHasInitialized
             THEN [v EXCEPT !.fields = StoreKeys(v), !.isLoading = FALSE] ELSE v
    IN [w EXCEPT !.timers = IF w.isLoading \/ w.storeLoading THEN "both" ELSE "none"]

Keep == UNCHANGED <<store, now, calls, hist>>

\* the key store's loadKeys() ends: the keys are there, or its error is set;
\* initializeForm, if it awaits it, goes on to its end, and so does the
\* finally of the Retry button, if it was pressed for this load
loadKeys_settles(ok, loaded) ==
    LET v == [ui EXCEPT !.storeLoading = FALSE,
                        !.storeHasInitialized = IF ok THEN TRUE ELSE @,
                        !.storeError = ~ok,
                        !.keys = IF ok THEN loaded ELSE @]
        w == IF ui.init = "awaiting"
             THEN [v EXCEPT !.fields = StoreKeys(v), !.isLoading = FALSE, !.init = "done"]
             ELSE v
        x == IF ui.retry THEN [w EXCEPT !.isLoading = FALSE, !.retry = FALSE] ELSE w
    IN /\ ui.mounted /\ ui.storeLoading
       /\ ui' = Rendered(ui, x)
       /\ Keep

\* the timeout of 3000 ms
loadingTimeout ==
    /\ ui.mounted /\ ui.timers = "both"
    /\ ui' = Rendered(ui, [ui EXCEPT !.timers = "force", !.showForceLoad = TRUE])
    /\ Keep

\* what the timeout of 7000 ms sets
ForcedDisplay(u) ==
    [u EXCEPT !.isLoading = FALSE, !.showForceLoad = FALSE, !.fields = StoreKeys(u)]

\* the timeout of 7000 ms (set with the one of 3000 ms, so it fires after it)
forceTimeout ==
    /\ ui.mounted /\ ui.timers = "force"
    /\ ui' = Rendered(ui, ForcedDisplay([ui EXCEPT !.timers = "none"]))
    /\ Keep

\* the "Force Load Form" button: setIsLoading(false) and then
\* setIsLoading(true) leave isLoading true
handleForceLoad ==
    /\ ui.mounted /\ View(ui) = "forceLoad"
    /\ ui' = Rendered(ui, [ui EXCEPT !.isLoading = TRUE, !.showForceLoad = FALSE,
                                     !.fields = StoreKeys(ui),
                                     !.toast = "API keys form loaded",
                                     !.events = @ + 1])
    /\ Keep

\* the "Retry" button of the error view: setIsLoading(true), and
\* loadKeys().finally(() => setIsLoading(false)); loadKeys() turns the
\* store's isLoading on and its error off.  (The store is not loading while
\* the error view is shown: its error is set when a load ends and taken off
\* when one starts.)
Retry ==
    /\ ui.mounted /\ View(ui) = "error"
    /\ ui' = Rendered(ui, [ui EXCEPT !.isLoading = TRUE, !.storeLoading = TRUE,
                                     !.storeError = FALSE, !.retry = TRUE,
                                     !.events = @ + 1])
    /\ Keep

\* onChange of the input of a provider
Type(provider, text) ==
    /\ ui.mounted /\ View(ui) = "form"
    /\ ui' = [ui EXCEPT !.fields[provider] = text, !.events = @ + 1]
    /\ Keep

\* another consumer of the key store calls loadKeys()
store_loadKeys ==
    /\ ui.mounted /\ ~ui.storeLoading
    /\ ui' = Rendered(ui, [ui EXCEPT !.storeLoading = TRUE, !.storeError = FALSE,
                                     !.events = @ + 1])
    /\ Keep

\* ToSave gone wrong: the fields are compared and sent as typed
ToSaveUntrimmed(fields) == {<<p, fields[p]>> : p \in {q \in Providers : fields[q] # ""}}

\* the setKey calls of handleSaveKeys: one for each provider whose field is
\* not empty after trim(), with the trimmed value
ToSave(fields) == {<<p, Trim(fields[p])>> : p \in {q \in Providers : Trim(fields[q]) # ""}}

\* a request of the save that is awaited (live) or of one whose Promise.all
\* has rejected
Request(call, live) == [op |-> "setKey", provider |-> call[1], value |-> call[2], live |-> live]

\* the requests in flight when Promise.all has rejected: each is still in
\* flight, none is awaited
Orphaned(inflight) ==
    LET orphans == {[r EXCEPT !.live = FALSE] : r \in BagToSet(inflight)}
    IN [o \in orphans |-> CopiesIn(o, inflight) + CopiesIn([o EXCEPT !.live = TRUE], inflight)]

\* the "Override with Your Keys" button (disabled while isSaving), up to
\* await Promise.all(updates) or, with nothing to save, to the end
handleSaveKeys ==
    LET called == ToSave(ui.fields)
        save == [pc |-> "awaiting", fields |-> ui.fields, called |-> called,
                 outcome |-> "none"]
    IN /\ ui.mounted /\ View(ui) = "form" /\ ~ui.isSaving
       /\ ui' = IF called = {}
                THEN [ui EXCEPT !.save = [save EXCEPT !.pc = "done", !.outcome = "nothing"],
                                !.isSaving = FALSE, !.toast = "No API keys to save",
                                !.events = @ + 1]
                ELSE [ui EXCEPT !.save = save, !.isSaving = TRUE,
                                !.inflight = @ (+) SetToBag({Request(c, TRUE) : c \in called}),
                                !.events = @ + 1]
       /\ Keep

\* SaveFailed gone wrong: the fields are left as typed
SaveFailedKeepsFields(u) ==
    [u EXCEPT !.save.pc = "done", !.save.outcome = "failed",
              !.toast = "Failed to save API keys", !.isSaving = FALSE,
              !.inflight = Orphaned(@)]

\* catch and finally of handleSaveKeys: Promise.all has rejected, the other
\* requests stay in flight
SaveFailed(u) ==
    [u EXCEPT !.save.pc = "done", !.save.outcome = "failed",
              !.toast = "Failed to save API keys", !.fields = StoreKeys(u),
              !.isSaving = FALSE, !.inflight = Orphaned(@)]

\* after await Promise.all(updates): a re-read is set for 100 ms later
SaveSucceeded(u) ==
    [u EXCEPT !.save.pc = "done", !.save.outcome = "saved", !.sync = @ + 1,
              !.toast = "API keys saved successfully", !.isSaving = FALSE]

\* one of the setKey requests in flight ends: the key store holds the key,
\* or the request is rejected and the store is as it was; handleSaveKeys goes
\* on if that settles its Promise.all
setKey_settles(r, ok) ==
    LET v == [ui EXCEPT !.inflight = @ (-) SetToBag({r}),
                        !.keys[r.provider] = IF ok THEN r.value ELSE @]
        w == IF ~r.live THEN v
             ELSE IF ~ok THEN SaveFailed(v)
             ELSE IF \A o \in BagToSet(v.inflight) : ~o.live THEN SaveSucceeded(v)
             ELSE v
    IN /\ ui.mounted /\ BagIn(r, ui.inflight)
       /\ ui' = Rendered(ui, w)
       /\ Keep

\* one of the timeouts of 100 ms set by the saves that have succeeded
syncTimeout ==
    /\ ui.mounted /\ ui.sync > 0
    /\ ui' = [ui EXCEPT !.sync = @ - 1, !.fields = StoreKeys(ui)]
    /\ Keep

\* a run of handleClearKey(provider) and the await it is at; ui.clear is the
\* run that moved last, with how it ended
Clearing(pc, provider) == [pc |-> pc, provider |-> provider]

\* the X button of a provider (shown while its field is not empty), up to
\* await removeKey(provider); nothing disables it while a clear is under way
handleClearKey(provider) ==
    /\ ui.mounted /\ View(ui) = "form" /\ ui.fields[provider] # ""
    /\ ui' = [ui EXCEPT !.clears = @ (+) SetToBag({Clearing("removing", provider)}),
                        !.clear = [pc |-> "removing", provider |-> provider,
                                   outcome |-> "none"],
                        !.events = @ + 1]
    /\ Keep

\* catch of handleClearKey
ClearFailed(u, provider, outcome) ==
    [u EXCEPT !.clear = [pc |-> "done", provider |-> provider, outcome |-> outcome],
              !.toast = "Failed to remove API key", !.fields = StoreKeys(u)]

\* Cleared gone wrong: every field is emptied
ClearedAll(u, provider) ==
    [u EXCEPT !.clears = @ (+) SetToBag({Clearing("importing", provider)}),
              !.clear = [pc |-> "importing", provider |-> provider, outcome |-> "none"],
              !.fields = NoKeys]

\* switch (provider): the field of the provider is emptied; then
\* await import("@/frontend/stores/ModelStore")
Cleared(u, provider) ==
    [u EXCEPT !.clears = @ (+) SetToBag({Clearing("importing", provider)}),
              !.clear = [pc |-> "importing", provider |-> provider, outcome |-> "none"],
              !.fields[provider] = ""]

\* the removeKey(provider) of one clear ends: the key store holds no key of
\* the provider, or the request is rejected and the store is as it was
removeKey_settles(provider, ok) ==
    LET v == [ui EXCEPT !.clears = @ (-) SetToBag({Clearing("removing", provider)}),
                        !.keys[provider] = IF ok THEN "" ELSE @]
    IN /\ ui.mounted /\ BagIn(Clearing("removing", provider), ui.clears)
       /\ ui' = Rendered(ui, IF ok THEN Cleared(v, provider)
                             ELSE ClearFailed(v, provider, "failed"))
       /\ Keep

\* the import of one clear ends: cleanupFavoritesForRemovedProviders() is
\* called, or the import is rejected, into the catch
import_settles(provider, ok) ==
    LET v == [ui EXCEPT !.clears = @ (-) SetToBag({Clearing("importing", provider)})]
    IN /\ ui.mounted /\ BagIn(Clearing("importing", provider), ui.clears)
       /\ ui' = IF ok
                THEN [v EXCEPT !.clear = [pc |-> "done", provider |-> provider,
                                          outcome |-> "removed"],
                               !.cleanups = @ + 1, !.toast = "API key removed"]
                ELSE ClearFailed(v, provider, "import failed")
       /\ Keep

----------------------------------------------------------------------------
(* SpecFormLoad: the form is mounted over a key store that is fresh, is     *)
(* being loaded or has been loaded; the load ends or does not, the timeouts *)
(* fire, the user presses "Force Load Form" and "Retry" and types.          *)
(* SpecFormLoadFair is the same with the timeouts firing once they are due. *)

MaxLoadEvents == 2

OldKeys == [NoKeys EXCEPT !["openai"] = "old"]

InitFormLoad ==
    /\ threads = {}
    /\ messages = {}
    /\ attachments = {}
    /\ personas = <<>>
    /\ shares = {}
    /\ prefs = {}
    /\ files = {}
    /\ profiles = {}
    /\ now = 1
    /\ calls = [p \in Procs |-> Idle]
    /\ hist = <<>>
    /\ ui \in {FirstRender(NoKeys, FALSE, FALSE), FirstRender(NoKeys, TRUE, FALSE),
               FirstRender(OldKeys, TRUE, TRUE), FirstRender(OldKeys, FALSE, TRUE)}

NextFormLoad ==
    \/ \E ok \in BOOLEAN, loaded \in {NoKeys, OldKeys} : loadKeys_settles(ok, loaded)
    \/ loadingTimeout
    \/ forceTimeout
    \/ /\ ui.events < MaxLoadEvents
       /\ handleForceLoad
    \/ /\ ui.events < MaxLoadEvents
       /\ Retry
    \/ /\ ui.events < MaxLoadEvents
       /\ \E text \in {"", " a "} : Type("openai", text)
    \/ /\ ui.events < MaxLoadEvents
       /\ store_loadKeys

SpecFormLoad == InitFormLoad /\ [][NextFormLoad]_vars
SpecFormLoadFair ==
    SpecFormLoad /\ WF_vars(loadingTimeout) /\ WF_vars(forceTimeout)

Waiting == ui.mounted /\ View(ui) \in {"loading", "forceLoad"}

\* C14, as stated: when the timeout of 7 seconds fires, the form is shown
\* with the keys the store holds, whether or not the store's loading flag
\* has become false; and neither the loading view nor the force-load view
\* stays for ever.
C14_FormShownAfterSevenSeconds ==
    /\ [][forceTimeout => (View(ui') = "form" /\ ui'.fields = StoreKeys(ui'))]_vars
    /\ []<>(~Waiting)

\* C14, for what the timeout does: it turns the local isLoading and the
\* force-load offer off and copies the store's keys to the fields, and the
\* form is shown if the store is neither loading nor in error.
C14_LocalFlagForcedOff ==
    [][forceTimeout =>
          /\ ~ui'.isLoading /\ ~ui'.showForceLoad /\ ui'.fields = StoreKeys(ui')
          /\ (~ui'.storeLoading /\ ~ui'.storeError) => View(ui') = "form"]_vars

\* the loading view, for good: the store is loading, no timeout is set
C14_StuckLoading ==
    /\ ui.mounted /\ ui.storeLoading /\ ~ui.isLoading /\ ~ui.showForceLoad
    /\ ui.timers = "none" /\ View(ui) = "loading"

----------------------------------------------------------------------------
(* SpecForm: the form is shown over a loaded key store that holds a key of  *)
(* openai; the user types, saves and clears, and the store's requests end   *)
(* well or are rejected.                                                    *)

MaxFormEvents == 4

InitForm ==
    /\ threads = {}
    /\ messages = {}
    /\ attachments = {}
    /\ personas = <<>>
    /\ shares = {}
    /\ prefs = {}
    /\ files = {}
    /\ profiles = {}
    /\ now = 1
    /\ calls = [p \in Procs |-> Idle]
    /\ hist = <<>>
    /\ ui = FirstRender(OldKeys, FALSE, TRUE)

NextForm ==
    \/ /\ ui.events < MaxFormEvents
       /\ \E p \in Providers, text \in Texts : Type(p, text)
    \/ /\ ui.events < MaxFormEvents
       /\ handleSaveKeys
    \/ /\ ui.events < MaxFormEvents
       /\ \E p \in Providers : handleClearKey(p)
    \/ \E r \in BagToSet(ui.inflight), ok \in BOOLEAN : setKey_settles(r, ok)
    \/ syncTimeout
    \/ \E p \in Providers, ok \in BOOLEAN : removeKey_settles(p, ok)
    \/ \E p \in Providers, ok \in BOOLEAN : import_settles(p, ok)

SpecForm == InitForm /\ [][NextForm]_vars

\* the requests handleSaveKeys has just issued
Issued(u) == {r \in BagToSet(u.inflight) : r.live}

\* C15: a press of the save button calls setKey, and nothing else of the key
\* store, once for each provider whose field is not empty after trimming,
\* with the trimmed value; for a provider whose field is empty or blank no
\* request is made, and with three such fields none at all, the store being
\* left as it is.  Whenever handleSaveKeys has finished (nothing to save,
\* saved, failed), isSaving is false.
C15_SavesTrimmedNonEmpty ==
    /\ [][handleSaveKeys =>
            /\ \A p \in Providers :
                  LET sent == {r \in Issued(ui') : r.provider = p}
                      call == [op |-> "setKey", provider |-> p,
                               value |-> Trim(ui.fields[p]), live |-> TRUE]
                  IN IF Trim(ui.fields[p]) = "" THEN sent = {}
                     ELSE sent = {call} /\ CopiesIn(call, ui'.inflight) = 1
            /\ (\A p \in Providers : Trim(ui.fields[p]) = "") =>
                  ui'.inflight = ui.inflight /\ ui'.save.outcome = "nothing"
            /\ ui'.keys = ui.keys]_vars
    /\ [](ui.mounted /\ ui.save.pc = "done" => ~ui.isSaving)

\* a save has ended well: the key of google was sent trimmed, the blank
\* field of openrouter was not sent
C15_Witness ==
    /\ ui.mounted /\ ui.save.pc = "done" /\ ui.save.outcome = "saved"
    /\ ui.save.fields["google"] = " a " /\ ui.keys["google"] = "a"
    /\ ui.save.fields["openrouter"] = " " /\ ui.keys["openrouter"] = ""
    /\ ~ui.isSaving

\* the field of openai was emptied and the save had nothing to send: the
\* store keeps the key
C15_WitnessNothing ==
    /\ ui.mounted /\ ui.save.pc = "done" /\ ui.save.outcome = "nothing"
    /\ ui.save.fields["openai"] = "" /\ ui.keys["openai"] = "old"
    /\ ~ui.isSaving

\* C16: when a setKey request of the awaited save is rejected, the save ends
\* as failed ("Failed to save API keys") and each field holds the store's
\* value as it then is, keys of sibling requests that have succeeded
\* included; when the save has succeeded the re-read is set, and when it
\* runs each field holds the store's value for its provider.
C16_FailedSaveRevertsToStore ==
    /\ [][(\E r \in Issued(ui) : setKey_settles(r, FALSE)) =>
            /\ ui'.save.pc = "done" /\ ui'.save.outcome = "failed"
            /\ ui'.toast = "Failed to save API keys"
            /\ ui'.fields = StoreKeys(ui')]_vars
    /\ [][(ui.save.pc = "awaiting" /\ ui'.save.outcome = "saved") =>
            ui'.sync = ui.sync + 1]_vars
    /\ [][syncTimeout => ui'.fields = StoreKeys(ui')]_vars

\* the request of openai was rejected after the one of google had succeeded:
\* the field of google holds the key just stored
C16_Witness ==
    /\ ui.mounted /\ ui.save.pc = "done" /\ ui.save.outcome = "failed"
    /\ ui.save.fields["google"] = " a " /\ ui.keys["google"] = "a"
    /\ ui.fields["google"] = "a" /\ ui.inflight = EmptyBag

\* the re-read after a save has run and changed a field
C16_WitnessSynced ==
    /\ ui.mounted /\ ui.save.outcome = "saved" /\ ui.sync = 0
    /\ ui.save.fields["google"] = " a " /\ ui.fields["google"] = "a"

\* C17: when removeKey(provider) has succeeded, handleClearKey empties the
\* field of the provider and leaves the other two as they are, and (its
\* import of the model store resolving) calls
\* cleanupFavoritesForRemovedProviders; the cleanup is called in no other
\* step, so never before removeKey has succeeded.  When removeKey is
\* rejected, the cleanup is not called and each field holds the store's
\* value.
C17_ClearsOnlyAfterRemoval ==
    /\ [][\A p \in Providers : removeKey_settles(p, TRUE) =>
            /\ ui'.fields = [ui.fields EXCEPT ![p] = ""]
            /\ ui'.keys[p] = ""
            /\ CopiesIn(Clearing("importing", p), ui'.clears) =
                  CopiesIn(Clearing("importing", p), ui.clears) + 1
            /\ ui'.cleanups = ui.cleanups]_vars
    /\ [][\A p \in Providers :
            CopiesIn(Clearing("importing", p), ui'.clears) >
               CopiesIn(Clearing("importing", p), ui.clears) => removeKey_settles(p, TRUE)]_vars
    /\ [][ui'.cleanups # ui.cleanups =>
            /\ \E p \in Providers : import_settles(p, TRUE)
            /\ ui'.cleanups = ui.cleanups + 1 /\ ui'.fields = ui.fields]_vars
    /\ [][\A p \in Providers : import_settles(p, TRUE) =>
            /\ BagIn(Clearing("importing", p), ui.clears)
            /\ ui'.cleanups = ui.cleanups + 1]_vars
    /\ [][\A p \in Providers : removeKey_settles(p, FALSE) =>
            /\ ui'.cleanups = ui.cleanups
            /\ CopiesIn(Clearing("importing", p), ui'.clears) =
                  CopiesIn(Clearing("importing", p), ui.clears)
            /\ ui'.clear = [pc |-> "done", provider |-> p, outcome |-> "failed"]
            /\ ui'.fields = StoreKeys(ui')]_vars

\* the key of openai was removed and the cleanup called, the field of google
\* still holding what was typed and not saved
C17_Witness ==
    /\ ui.mounted /\ ui.clear.pc = "done" /\ ui.clear.outcome = "removed"
    /\ ui.clear.provider = "openai" /\ ui.keys["openai"] = "" /\ ui.fields["openai"] = ""
    /\ ui.fields["google"] = " a " /\ ui.keys["google"] = ""
    /\ ui.cleanups = 1

\* removeKey was rejected: no cleanup, the typed field of google is reset
C17_WitnessFailed ==
    /\ ui.mounted /\ ui.clear.pc = "done" /\ ui.clear.outcome = "failed"
    /\ ui.keys["openai"] = "old" /\ ui.fields = StoreKeys(ui) /\ ui.cleanups = 0

----------------------------------------------------------------------------
(* getSharedThread, getSharedThreadMessages: requests to the application's  *)
(* own endpoints, no store query.                                           *)

\* MethodOf gone wrong: an empty password is sent too
MethodIfDefined(password) == IF password # None THEN "POST" ELSE "GET"

\* if (password): undefined and "" are not sent
MethodOf(password) == IF password \notin {None, Some(NoText)} THEN "POST" ELSE "GET"

\* the request of getSharedThread
SharedRequest(shareToken, password) ==
    [method |-> MethodOf(password), url |-> <<"/api/shared", shareToken>>,
     body |-> IF MethodOf(password) = "POST" THEN password ELSE None]

\* what comes back: fetch rejects, or a response with a status in or out of
\* 200..299, whose body, when it is read, is JSON (an error field, a payload)
\* or is not
NoBody == [json |-> FALSE, error |-> "", data |-> ""]
Bodies ==
    {[json |-> TRUE, error |-> "Invalid password", data |-> "payload"],
     [json |-> TRUE, error |-> "", data |-> "payload"],
     NoBody}
Responses ==
    {[failed |-> TRUE, ok |-> FALSE, body |-> NoBody]}
       \cup {[failed |-> FALSE, ok |-> ok, body |-> NoBody] : ok \in BOOLEAN}

\* after await fetch(...): a rejection goes to the catch, which throws what
\* it caught; of a response the body is read next, 2xx or not
Answered(c, response) ==
    IF response.failed THEN Throws([c EXCEPT !.l.response = response], "fetch failed")
    ELSE [c EXCEPT !.pc = "json", !.l.response = response]

\* after await response.json(): what it throws is thrown on by the catch;
\* else the body of a response outside 2xx is thrown as an Error, its
\* message errorData.error || default, and the body of a 2xx one returned
Relayed(c, body, default) ==
    LET d == [c EXCEPT !.l.response.body = body]
    IN IF ~body.json THEN Throws(d, "SyntaxError")
       ELSE IF ~c.l.response.ok
            THEN Throws(d, IF body.error # "" THEN body.error ELSE default)
       ELSE Returns(d, body.data)

getSharedThread(p, user, shareToken, password) ==
    /\ Start(p, NewCall("getSharedThread", "fetch", user,
              [shareToken |-> shareToken, password |-> password],
              [request |-> SharedRequest(shareToken, password), response |-> Null]))
    /\ UNCHANGED <<store, now>>

getSharedThread_fetch(p, response) ==
    /\ At(p, "getSharedThread", "fetch")
    /\ Set(p, Answered(calls[p], response))
    /\ UNCHANGED <<store, now>>

getSharedThread_json(p, body) ==
    /\ At(p, "getSharedThread", "json")
    /\ Set(p, Relayed(calls[p], body, "Failed to access shared conversation"))
    /\ UNCHANGED <<store, now>>

getSharedThreadMessages(p, user, shareToken) ==
    /\ Start(p, NewCall("getSharedThreadMessages", "fetch", user,
              [shareToken |-> shareToken],
              [request |-> [method |-> "GET",
                            url |-> <<"/api/shared", shareToken, "messages">>,
                            body |-> None],
               response |-> Null]))
    /\ UNCHANGED <<store, now>>

getSharedThreadMessages_fetch(p, response) ==
    /\ At(p, "getSharedThreadMessages", "fetch")
    /\ Set(p, Answered(calls[p], response))
    /\ UNCHANGED <<store, now>>

getSharedThreadMessages_json(p, body) ==
    /\ At(p, "getSharedThreadMessages", "json")
    /\ Set(p, Relayed(calls[p], body, "Failed to load messages"))
    /\ UNCHANGED <<store, now>>

----------------------------------------------------------------------------
(* SpecShared: one client that shares a thread and reads shared threads     *)
(* through the endpoints.                                                   *)

MaxSharedCalls == 1

NextShared ==
    \/ /\ Started < MaxSharedCalls
       /\ \E pw \in {None, Some(Pw)} :
             createSharedThread("p1", "u1", "t1", "title", None, None, pw, None, "k1")
    \/ createSharedThread_digest("p1")
    \/ \E id \in ShareIds : createSharedThread_insert("p1", NoError, id)
    \/ \E u \in {"u1", NoUser}, k \in ShareTokens, pw \in {None, Some(NoText), Some(Pw)} :
          getSharedThread("p1", u, k, pw)
    \/ \E u \in {"u1", NoUser}, k \in ShareTokens : getSharedThreadMessages("p1", u, k)
    \/ \E r \in Responses : getSharedThread_fetch("p1", r)
    \/ \E b \in Bodies : getSharedThread_json("p1", b)
    \/ \E r \in Responses : getSharedThreadMessages_fetch("p1", r)
    \/ \E b \in Bodies : getSharedThreadMessages_json("p1", b)

SpecShared == Init /\ [][NextShared]_vars

Relays == {"getSharedThread", "getSharedThreadMessages"}
DefaultText(op) ==
    IF op = "getSharedThread" THEN "Failed to access shared conversation"
    ELSE "Failed to load messages"

\* the request getSharedThread has made is the one its arguments call for
RequestFits(c) ==
    LET given == c.a.password # None /\ c.a.password # Some(NoText)
    IN /\ c.l.request.url = <<"/api/shared", c.a.shareToken>>
       /\ c.l.request.method = (IF given THEN "POST" ELSE "GET")
       /\ c.l.request.body = (IF given THEN c.a.password ELSE None)

\* the call has had a response (fetch has not rejected) and has ended
Responded(c) == c.op \in Relays /\ c.pc = "done" /\ ~c.l.response.failed

\* a response outside 2xx is thrown with the text of its error field or the
\* default text, one inside is returned as parsed
RelayedAsStated(c) ==
    IF c.l.response.ok
    THEN c.out = "returned" /\ c.ret = c.l.response.body.data
    ELSE /\ c.out = "threw"
         /\ c.err = (IF c.l.response.body.error # ""
                     THEN c.l.response.body.error ELSE DefaultText(c.op))

C18_Witness ==
    /\ cur.op = "getSharedThread" /\ cur.out = "threw"
    /\ cur.l.request.method = "POST" /\ cur.l.request.body = Some(Pw)
    /\ cur.err = "Invalid password" /\ shares # {}

\* an empty password is not sent; the endpoint refuses without a text
C18_WitnessEmptyPassword ==
    /\ cur.op = "getSharedThread" /\ cur.out = "threw"
    /\ cur.a.password = Some(NoText) /\ cur.l.request.method = "GET"
    /\ cur.err = "Failed to access shared conversation"

C18_WitnessUnparsedOk ==
    /\ cur.op = "getSharedThread" /\ cur.out = "threw"
    /\ ~cur.l.response.failed /\ cur.l.response.ok /\ cur.err = "SyntaxError"

----------------------------------------------------------------------------
(* SpecArchive: one client that creates threads, writes a message, archives *)
(* and restores threads, renames them, moves them to a project or out of it *)
(* and lists them.                                                          *)

MaxArchiveCalls == 3

NextArchive ==
    \/ /\ Started < MaxArchiveCalls
       /\ createThread("p1", "u1", "t2", Some("pr1"))
    \/ /\ Started < MaxArchiveCalls
       /\ createMessage("p1", "u1", "t1", UIMessage(M1, "user", "hello", None), <<>>)
    \/ /\ Started < MaxArchiveCalls
       /\ \E id \in ThreadIds, a \in BOOLEAN, t \in Clock : toggleThreadArchived("p1", "u1", id, a, t)
    \/ /\ Started < MaxArchiveCalls
       /\ \E id \in ThreadIds, t \in Clock : updateThread("p1", "u1", id, "Trip plans", t)
    \/ /\ Started < MaxArchiveCalls
       /\ \E id \in ThreadIds, pr \in {None, Some("pr2")}, t \in Clock :
             moveThreadToProject("p1", "u1", id, pr, t)
    \/ \E inc \in {None, Some(TRUE), Some(FALSE)} : getThreads("p1", "u1", inc)
    \/ createThread_insert("p1", NoError, now)
    \/ createMessage_lookup("p1", NoError, now)
    \/ createMessage_insert_thread("p1", NoError, now, now)
    \/ \E t \in Clock : createMessage_upsert("p1", NoError, M1, t)
    \/ createMessage_touch("p1", NoError)
    \/ \E e \in Faults : toggleThreadArchived_update("p1", e)
    \/ \E e \in Faults : updateThread_update("p1", e)
    \/ \E e \in Faults : moveThreadToProject_update("p1", e)
    \/ \E e \in Faults, data \in Listings("p1") : getThreads_select("p1", e, data)

SpecArchive == Init /\ [][NextArchive]_vars

ThreadIdsOf(rows) == {rows[i].id : i \in DOMAIN rows}
Toggled(c, T, a) ==
    /\ c.op = "toggleThreadArchived" /\ c.out = "returned"
    /\ c.a.threadId = T /\ c.a.isArchived = a
GotThreads(includeArchived) ==
    /\ cur.op = "getThreads" /\ cur.out = "returned"
    /\ cur.a.includeArchived \in includeArchived

\* a thread row without the columns toggleThreadArchived writes
Unarchived(rows) == {[r EXCEPT !.is_archived = FALSE, !.updated_at = 0] : r \in rows}

\* C19: getThreads() (and getThreads(false)) returns exactly the threads that
\* are not archived, getThreads(true) every thread, both in descending order
\* of last_message_at.  When toggleThreadArchived(T, true) has returned, a
\* getThreads() that follows does not return T; when
\* toggleThreadArchived(T, false) has returned, it does.  A toggle changes no
\* message and, of the threads, only is_archived and updated_at: title,
\* project and last_message_at are as before.
C19_ArchivedHiddenAndRestored ==
    /\ (cur.op = "getThreads" /\ cur.out = "returned") =>
          /\ \A i, j \in DOMAIN cur.ret :
                i < j => cur.ret[i].last_message_at >= cur.ret[j].last_message_at
          /\ \A i, j \in DOMAIN cur.ret : i # j => cur.ret[i] # cur.ret[j]
    /\ GotThreads({None, Some(FALSE)}) =>
          Range(cur.ret) = {r \in threads : ~r.is_archived}
    /\ GotThreads({Some(TRUE)}) => Range(cur.ret) = threads
    /\ \A T \in ThreadIds :
          /\ (GotThreads({None, Some(FALSE)}) /\ Toggled(last, T, TRUE)) =>
                T \notin ThreadIdsOf(cur.ret)
          /\ (GotThreads({None, Some(FALSE)}) /\ Toggled(last, T, FALSE)) =>
                T \in ThreadIdsOf(cur.ret)
    /\ (cur.op = "toggleThreadArchived" /\ cur.pc = "done") =>
          /\ messages = cur.pre.messages
          /\ Unarchived(threads) = Unarchived(cur.pre.threads)

\* a thread with a message was archived and restored, and is listed again
C19_Witness ==
    /\ GotThreads({None}) /\ Toggled(last, "t1", FALSE) /\ Toggled(earlier(2), "t1", TRUE)
    /\ "t1" \in ThreadIdsOf(cur.ret)
    /\ \E r \in messages : r.thread_id = "t1"

\* an archived thread is left out of getThreads() while another is listed
C19_WitnessHidden ==
    /\ GotThreads({None}) /\ Toggled(last, "t1", TRUE)
    /\ Len(cur.ret) = 1 /\ Cardinality(threads) = 2

\* getThreads(true) lists an archived thread
C19_WitnessIncluded ==
    /\ GotThreads({Some(TRUE)}) /\ Toggled(last, "t1", TRUE)
    /\ "t1" \in ThreadIdsOf(cur.ret)

----------------------------------------------------------------------------
(* SpecHash: one client that hashes passwords and verifies passwords        *)
(* against the digest it got last.                                          *)

MaxHashCalls == 2

\* the passwords tried: every string of up to MaxPasswordLen of these code
\* units: the letter a, a high and a low surrogate, and U+FFFD
MaxPasswordLen == 2
CodeUnits == {97, 55296, 56320, 65533}
Passwords == UNION {[1..n -> CodeUnits] : n \in 0..MaxPasswordLen}

NextHash ==
    \/ /\ Started < MaxHashCalls
       /\ \E password \in Passwords : hashPassword_call("p1", "u1", password)
    \/ /\ Started < MaxHashCalls
       /\ cur.op = "hashPassword" /\ cur.out = "returned"
       /\ \E password \in Passwords : verifyPassword("p1", "u1", password, cur.ret)
    \/ hashPassword_digest("p1")
    \/ verifyPassword_digest("p1")

SpecHash == Init /\ [][NextHash]_vars

Hashed(c) == c.op = "hashPassword" /\ c.out = "returned"
\* cur is verifyPassword(p2, h), h the digest hashPassword(p) returned to last
VerifiedAgainstLast ==
    /\ cur.op = "verifyPassword" /\ cur.out = "returned"
    /\ Hashed(last) /\ cur.a.hash = last.ret

\* C20, as stated: two calls of hashPassword with the same password return
\* the same digest, and verifyPassword(p2, hashPassword(p)) is true when
\* p2 = p and false for every other p2.
C20_VerifiesOnlySamePassword ==
    /\ (Hashed(cur) /\ Hashed(last) /\ cur.a.password = last.a.password) =>
          cur.ret = last.ret
    /\ VerifiedAgainstLast => (cur.ret = (cur.a.password = last.a.password))

\* the code unit at i is a surrogate without its partner: a high one not
\* followed by a low one, or a low one not preceded by a high one
Unpaired(password, i) ==
    \/ /\ IsHighSurrogate(password[i])
       /\ ~(i < Len(password) /\ IsLowSurrogate(password[i + 1]))
    \/ /\ IsLowSurrogate(password[i])
       /\ ~(i > 1 /\ IsHighSurrogate(password[i - 1]))

\* the password with U+FFFD in the place of every unpaired surrogate
Repaired(password) ==
    [i \in DOMAIN password |-> IF Unpaired(password, i) THEN 65533 ELSE password[i]]

\* C20, amended: two calls of hashPassword with the same password return the
\* same digest, and verifyPassword(p2, hashPassword(p)) is true when p2 = p,
\* true as well when p2 and p are the same once every unpaired surrogate is
\* replaced by U+FFFD, and false for every other p2.
C20_VerifiesSameEncoding ==
    /\ (Hashed(cur) /\ Hashed(last) /\ cur.a.password = last.a.password) =>
          cur.ret = last.ret
    /\ VerifiedAgainstLast =>
          /\ cur.a.password = last.a.password => cur.ret = TRUE
          /\ cur.ret = (Repaired(cur.a.password) = Repaired(last.a.password))

\* a low surrogate alone is verified against the digest of a high one
C20_Witness ==
    /\ VerifiedAgainstLast /\ cur.ret = TRUE
    /\ last.a.password = <<55296>> /\ cur.a.password = <<56320>>

\* another password is refused: the pair of surrogates, one character,
\* against the same two the other way round, both unpaired
C20_WitnessRefused ==
    /\ VerifiedAgainstLast /\ cur.ret = FALSE
    /\ last.a.password = <<55296, 56320>> /\ cur.a.password = <<56320, 55296>>

\* the same password hashed twice
C20_WitnessTwice ==
    /\ Hashed(cur) /\ Hashed(last) /\ cur.a.password = <<97, 65533>>
    /\ last.a.password = <<97, 65533>>

----------------------------------------------------------------------------
(* SpecPersonaRace: two clients of user u1 setting and removing the persona *)
(* of thread t1, their calls interleaved, the delete step of a set failing  *)
(* or not.                                                                  *)

MaxPersonaRaceCalls == 3

NextPersonaRace ==
    \/ /\ Started < MaxPersonaRaceCalls
       /\ \E p \in Procs, personaId \in PersonaIds : setThreadPersona(p, "u1", "t1", personaId)
    \/ /\ Started < MaxPersonaRaceCalls
       /\ \E p \in Procs : removeThreadPersona(p, "u1", "t1")
    \/ \E p \in Procs : setThreadPersona_lookup(p, NoError)
    \/ \E p \in Procs : setThreadPersona_insert_thread(p, NoError, now)
    \/ \E p \in Procs, e \in Faults : setThreadPersona_delete(p, e)
    \/ \E p \in Procs : setThreadPersona_insert(p, NoError)
    \/ \E p \in Procs : removeThreadPersona_delete(p, NoError)

SpecPersonaRace == Init /\ [][NextPersonaRace]_vars

\* client p's setThreadPersona returns in this step
PersonaSet(p) ==
    /\ At(p, "setThreadPersona", "insert")
    /\ calls'[p].out = "returned"

\* the delete of the call failed at the store
DeleteFailed(c) ==
    \E i \in DOMAIN c.log :
        c.log[i].verb = "delete" /\ c.log[i].table = "thread_personas" /\ c.log[i].error # NoError

\* no other client has called yet
Alone(p) == \A o \in Procs \ {p} : calls[o].op = "idle"

\* C21, as stated: when a setThreadPersona call returns, thread_personas
\* holds exactly one row for its thread and user, with the persona of the
\* call, whether or not its delete failed and whether or not another call for
\* the pair is in flight.
C21_ExactlyOnePersona ==
    [][\A p \in Procs : PersonaSet(p) =>
          /\ Len(PersonasOf(calls[p].a.threadId, calls[p].user)') = 1
          /\ PersonasOf(calls[p].a.threadId, calls[p].user)'[1].persona_id
                = calls[p].a.personaId]_vars

\* C21, what the code gives: when a setThreadPersona call returns, the last
\* row of thread_personas for its thread and user holds the persona of the
\* call, and it is the only row for the pair if the delete of the call did not
\* fail and no other client has called.
C21_OneRowWhenDeletedAlone ==
    [][\A p \in Procs : PersonaSet(p) =>
          LET rows == PersonasOf(calls[p].a.threadId, calls[p].user)'
          IN /\ Len(rows) >= 1
             /\ rows[Len(rows)].persona_id = calls[p].a.personaId
             /\ (~DeleteFailed(calls[p]) /\ Alone(p)) => Len(rows) = 1]_vars

\* a call whose delete failed has returned, and the pair has two rows
C21_Witness ==
    \E p \in Procs :
        /\ calls[p].op = "setThreadPersona" /\ calls[p].out = "returned"
        /\ DeleteFailed(calls[p])
        /\ Len(PersonasOf("t1", "u1")) = 2

\* two calls none of whose queries failed have returned, and the pair has
\* two rows
C21_WitnessInterleaved ==
    /\ \A p \in Procs : /\ calls[p].op = "setThreadPersona" /\ calls[p].out = "returned"
                        /\ Faultless(calls[p])
    /\ Len(PersonasOf("t1", "u1")) = 2

----------------------------------------------------------------------------
(* SpecCreateRace: two clients of user u1 writing messages with different   *)
(* ids into thread t1, which has no row at first; their calls interleaved.  *)
(* The store fails no query but the thread insert that comes second.        *)

MaxCreateRaceCalls == 3

\* the messages each client sends
RaceMessages(p) ==
    IF p = "p1" THEN {UIMessage(M1, "user", "hello", Some(1)), UIMessage(M3, "user", "more", None)}
    ELSE {UIMessage(M2, "assistant", "hi", Some(2))}

NextCreateRace ==
    \/ /\ Started < MaxCreateRaceCalls
       /\ \E p \in Procs : \E m \in RaceMessages(p) : createMessage(p, "u1", "t1", m, <<>>)
    \/ \E p \in Procs, t \in Clock : createMessage_lookup(p, NoError, t)
    \/ \E p \in Procs, t, at \in Clock : createMessage_insert_thread(p, NoError, t, at)
    \/ \E p \in Procs, g \in {M1, M2, M3}, t \in Clock : createMessage_upsert(p, NoError, g, t)
    \/ \E p \in Procs : createMessage_touch(p, NoError)

SpecCreateRace == Init /\ [][NextCreateRace]_vars

\* the thread insert of call c was refused because the id was taken
LostRace(c) ==
    \E i \in QueriesOn(c, "insert", "threads") : c.log[i].error = Conflict

\* C22: when two createMessage calls of one user, with different message ids,
\* for a thread id that has no row are interleaved, there is never more than
\* one thread row with that id; a call that has returned has its message row
\* stored and a call that has thrown has not; and a call whose thread insert
\* was refused has thrown that error without issuing its message upsert.
C22_RaceLoserThrowsCleanly ==
    /\ Cardinality(RowsWithId(threads, "t1")) <= 1
    /\ \A p \in Procs :
          LET c == calls[p]
          IN c.op = "createMessage" =>
                /\ c.pc = "done" => c.out \in {"returned", "threw"}
                /\ c.out = "returned" =>
                      \E r \in messages :
                          /\ r.id = c.a.message.id /\ r.content = c.a.message.content
                          /\ r.thread_id = "t1" /\ r.user_id = "u1"
                /\ c.out = "threw" =>
                      /\ RowsWithId(messages, c.a.message.id) = RowsWithId(c.pre.messages, c.a.message.id)
                      /\ ~MessageWritten(c)
                /\ LostRace(c) =>
                      /\ c.out = "threw" /\ c.err = Conflict
                      /\ QueriesOn(c, "upsert", "messages") = {}

\* both calls found no thread row; one inserted it and has returned with its
\* message stored, the other was refused and has thrown
C22_Witness ==
    \E p \in Procs : \E o \in Procs \ {p} :
        /\ calls[p].op = "createMessage" /\ calls[p].out = "returned"
        /\ QueriesOn(calls[p], "insert", "threads") # {}
        /\ calls[o].op = "createMessage" /\ LostRace(calls[o])
        /\ calls[o].pre.threads = {}
        /\ Cardinality(messages) = 1

----------------------------------------------------------------------------
(* SpecCreateFault: one client writing messages for u1 and u2 into thread   *)
(* t1, the store failing the thread lookup or the thread insert.            *)

MaxCreateFaultCalls == 3

CreateFaultCalls ==
    {<<"u1", UIMessage(M1, "user", "hello", Some(1)), <<F1>> >>,
     <<"u1", UIMessage(M2, "assistant", "hi", None), <<>> >>,
     <<"u2", UIMessage(M3, "user", "mine", Some(2)), <<F2>> >>}

NextCreateFault ==
    \/ /\ Started < MaxCreateFaultCalls
       /\ \E in \in CreateFaultCalls : createMessage("p1", in[1], "t1", in[2], in[3])
    \/ \E e \in Faults, t \in Clock : createMessage_lookup("p1", e, t)
    \/ \E e \in Faults, t, at \in Clock : createMessage_insert_thread("p1", e, t, at)
    \/ \E g \in {M1, M2, M3}, t \in Clock : createMessage_upsert("p1", NoError, g, t)
    \/ \E g \in AttachmentUuids("p1"), t \in Clock : createMessage_attach("p1", NoError, g, t)
    \/ createMessage_touch("p1", NoError)

SpecCreateFault == Init /\ [][NextCreateFault]_vars

\* the thread lookup of call c failed with an error other than row-not-found
LookupFailed(c) ==
    \E i \in QueriesOn(c, "select", "threads") : c.log[i].error \notin {NoError, NotFound}

\* the thread insert of call c failed
ThreadInsertFailed(c) ==
    \E i \in QueriesOn(c, "insert", "threads") : c.log[i].error # NoError

\* C23: when the thread lookup of createMessage fails with an error other
\* than row-not-found, or the thread insert after a row-not-found fails, the
\* call throws that error, having issued no further query, and the threads
\* (last_message_at included), messages and attachments are as the call found
\* them.
C23_ThreadFailureWritesNothing ==
    (cur.op = "createMessage" /\ (LookupFailed(cur) \/ ThreadInsertFailed(cur))) =>
        /\ cur.out = "threw"
        /\ cur.err = cur.log[Len(cur.log)].error
        /\ cur.err \notin {NoError, NotFound}
        /\ cur.log[Len(cur.log)].table = "threads"
        /\ cur.log[Len(cur.log)].verb \in {"select", "insert"}
        /\ \A i \in DOMAIN cur.log : cur.log[i].table = "threads" /\ cur.log[i].verb # "update"
        /\ ThreadInsertFailed(cur) => cur.log[1].error = NotFound /\ Len(cur.log) = 2
        /\ LookupFailed(cur) => Len(cur.log) = 1
        /\ threads = cur.pre.threads
        /\ messages = cur.pre.messages
        /\ attachments = cur.pre.attachments

\* the lookup failed, in a store that holds a thread, a message and an
\* attachment of an earlier call
C23_Witness ==
    /\ cur.op = "createMessage" /\ LookupFailed(cur) /\ cur.err = StoreFault
    /\ threads # {} /\ messages # {} /\ attachments # {}

\* the insert failed at the store
C23_WitnessInsert ==
    /\ cur.op = "createMessage" /\ ThreadInsertFailed(cur) /\ cur.err = StoreFault

\* the insert was refused: the id is that of another user's thread
C23_WitnessTaken ==
    /\ cur.op = "createMessage" /\ ThreadInsertFailed(cur) /\ cur.err = Conflict
    /\ cur.user = "u2" /\ \E r \in threads : r.id = "t1" /\ r.user_id = "u1"

----------------------------------------------------------------------------
(* SpecOwner: two clients, p1 signed in as u1 and p2 as u2, calling         *)
(* createThread, createMessage, deleteThread and deleteAllThreads, their    *)
(* calls interleaved.                                                       *)

MaxOwnerCalls == 3

OwnerMessages ==
    {<<UIMessage(M1, "user", "hello", Some(1)), <<F1>> >>}

\* the user each client is signed in as
SignedIn(p) == IF p = "p1" THEN "u1" ELSE "u2"

NextOwner ==
    \/ /\ Started < MaxOwnerCalls
       /\ \E p \in Procs, T \in ThreadIds : createThread(p, SignedIn(p), T, None)
    \/ /\ Started < MaxOwnerCalls
       /\ \E p \in Procs, T \in ThreadIds, in \in OwnerMessages :
             createMessage(p, SignedIn(p), T, in[1], in[2])
    \/ /\ Started < MaxOwnerCalls
       /\ \E p \in Procs, T \in ThreadIds : deleteThread(p, SignedIn(p), T)
    \/ /\ Started < MaxOwnerCalls
       /\ \E p \in Procs : deleteAllThreads(p, SignedIn(p))
    \/ \E p \in Procs : createThread_insert(p, NoError, now)
    \/ \E p \in Procs : createMessage_lookup(p, NoError, now)
    \/ \E p \in Procs : createMessage_insert_thread(p, NoError, now, now)
    \/ \E p \in Procs, g \in {M1, M2} : createMessage_upsert(p, NoError, g, now)
    \/ \E p \in Procs : \E g \in AttachmentUuids(p) : createMessage_attach(p, NoError, g, now)
    \/ \E p \in Procs : createMessage_touch(p, NoError)
    \/ \E p \in Procs : deleteThread_delete(p, NoError)
    \/ \E p \in Procs : deleteAllThreads_delete(p, NoError)

SpecOwner == Init /\ [][NextOwner]_vars

\* the thread id call c gives is that of a row of another user
OthersThread(c) ==
    \E r \in threads : r.id = c.a.threadId /\ r.user_id # c.user

\* the thread row call c writes its message under is in the table
OwnThreadIn(table, c) ==
    \E r \in table : r.id = c.a.threadId /\ r.user_id = c.user
OwnThread(c) == OwnThreadIn(threads, c)

\* client p's createMessage takes the step it has at pc
Steps(p, pc) == At(p, "createMessage", pc) /\ calls'[p] # calls[p]

\* a createMessage call does not get past a thread row of another user: its
\* lookup does not find the row, the thread insert that follows is refused
\* and thrown, and neither step writes a message or an attachment row
RefusesOthersThread ==
    \A p \in Procs :
        /\ (Steps(p, "lookup") /\ OthersThread(calls[p])) =>
              /\ calls'[p].pc = "insert_thread"
              /\ messages' = messages /\ attachments' = attachments
        /\ (Steps(p, "insert_thread") /\ OthersThread(calls[p])) =>
              /\ calls'[p].out = "threw" /\ calls'[p].err = Conflict
              /\ threads' = threads
              /\ messages' = messages /\ attachments' = attachments

\* every message row has the user_id of the thread row it references
SameOwner ==
    \A m \in messages : \A th \in threads : th.id = m.thread_id => th.user_id = m.user_id

\* every message row references a thread row, and has its user_id
InOwnThreads ==
    /\ SameOwner
    /\ \A m \in messages : \E th \in threads : th.id = m.thread_id

\* a createMessage call upserts its message when the thread row it has looked
\* up or inserted is there no more: a call that overlaps it has deleted it
LateUpsert == \E p \in Procs : Steps(p, "upsert") /\ ~OwnThread(calls[p])

\* when a createMessage call comes to its upsert, from the lookup or from the
\* thread insert, the thread row is there
ArrivesWithThread ==
    \A p \in Procs :
        (Steps(p, "lookup") \/ Steps(p, "insert_thread")) /\ calls'[p].pc = "upsert"
            => OwnThreadIn(threads', calls[p])

\* the thread row of a call that has come to its upsert is removed by nothing
\* but the delete of another client's deleteThread or deleteAllThreads
OnlyDeletedByOthers ==
    \A p \in Procs :
        (/\ At(p, "createMessage", "upsert")
         /\ OwnThread(calls[p]) /\ ~OwnThreadIn(threads', calls[p]))
            => \E q \in Procs \ {p} :
                  /\ calls[q].op \in {"deleteThread", "deleteAllThreads"}
                  /\ calls[q].pc # "done" /\ calls'[q].pc = "done"

\* C24, as stated: (the store refusing a second thread row with a taken id)
\* a createMessage call that finds a thread row with the given id under
\* another owner throws and writes no message or attachment row; and after
\* any calls of createThread, createMessage, deleteThread and
\* deleteAllThreads by any users every message row has the user_id of the
\* thread row it references.
C24_MessagesInOwnThreads ==
    /\ [][RefusesOthersThread]_vars
    /\ []SameOwner

\* C24, amended: a createMessage call that finds a thread row with the given
\* id under another owner throws and writes no message or attachment row.
\* Every message row references a thread row of its own user_id for as long
\* as no createMessage call upserts its message after the thread row it
\* looked up or inserted was deleted; the row is there when the call comes to
\* its upsert, and only the delete of a call of another client, overlapping
\* it, removes the row before the upsert is made.
C24_OwnThreadsUnlessDeletedMeanwhile ==
    /\ [][RefusesOthersThread]_vars
    /\ [][(InOwnThreads /\ ~LateUpsert) => InOwnThreads']_vars
    /\ [][ArrivesWithThread /\ OnlyDeletedByOthers]_vars

\* u2 has written into u1's thread id and was refused, u1's message being
\* there
C24_Witness ==
    LET c == calls["p2"]
    IN /\ c.op = "createMessage" /\ OthersThread(c) /\ c.out = "threw"
       /\ c.err = Conflict /\ c.user = "u2"
       /\ \E m \in messages : m.thread_id = c.a.threadId /\ m.user_id = "u1"

\* u1's call found its thread, the other client deleted the thread and
\* created it anew as u2, and then u1's call wrote its message: a message of
\* u1 in a thread of u2
C24_WitnessDeletedMeanwhile ==
    /\ cur.op = "createMessage" /\ cur.out = "returned" /\ cur.user = "u1"
    /\ calls["p2"].op = "createThread" /\ calls["p2"].user = "u2"
    /\ calls["p2"].out = "returned"
    /\ \E m \in messages : \E th \in threads :
          /\ m.id = cur.l.messageId /\ m.user_id = "u1"
          /\ th.id = m.thread_id /\ th.user_id = "u2"

\* u1's call is about to upsert its message, its thread row gone and a row
\* of u2 under the id
C24_WitnessAboutToWrite ==
    /\ At("p1", "createMessage", "upsert")
    /\ OthersThread(cur) /\ ~OwnThread(cur)

\* u2 has deleted u1's thread, and its message with it, and has then written
\* a message of its own under the thread id
C24_WitnessTakenOver ==
    LET c == calls["p2"]
    IN /\ c.op = "createMessage" /\ c.out = "returned" /\ c.user = "u2"
       /\ last.op = "deleteThread" /\ last.user = "u2" /\ last.out = "returned"
       /\ \E m \in last.pre.messages : m.thread_id = c.a.threadId /\ m.user_id = "u1"
       /\ last.a.id = c.a.threadId

\* u2 has written a message under the id of a message of u1: the row is now
\* u2's, in u2's thread
C24_WitnessOverwritten ==
    LET c == calls["p2"]
    IN /\ c.op = "createMessage" /\ c.out = "returned" /\ c.user = "u2"
       /\ \E m \in c.pre.messages : m.id = c.a.message.id /\ m.user_id = "u1"
                                     /\ m.thread_id # c.a.threadId

----------------------------------------------------------------------------
(* Properties of last_message_at, checked under Spec.                       *)

\* client p1's createMessage returns in this step
Touched == At("p1", "createMessage", "touch") /\ cur'.out = "returned"

\* the created_at of the message rows of thread T
CreatedAts(T) == {m.created_at : m \in {r \in messages : r.thread_id = T}}

\* C25, as stated: when a createMessage call returns, the last_message_at of
\* its thread is not less than it was, and is the greatest created_at of the
\* message rows of the thread.
C25_LastMessageAtNeverDecreases ==
    [][Touched =>
          \A th \in threads' : th.id = cur.a.threadId =>
              /\ \A old \in threads : old.id = th.id => th.last_message_at >= old.last_message_at
              /\ \A at \in CreatedAts(th.id)' : th.last_message_at >= at
              /\ th.last_message_at \in CreatedAts(th.id)']_vars

\* C25, what the code gives: when a createMessage call returns, the
\* last_message_at of its thread is the createdAt of the message of that
\* call, or, the message having none, a reading of the clock not before the
\* one its created_at is.
C25_LastMessageAtIsOfLastCall ==
    [][Touched =>
          \A th \in threads' : th.id = cur.a.threadId =>
              IF cur.a.message.createdAt # None
              THEN th.last_message_at = OrElse(cur.a.message.createdAt, 0)
                   /\ th.last_message_at = cur.l.createdAt
              ELSE th.last_message_at >= cur.l.createdAt]_vars

\* a call has returned and the last_message_at of its thread is less than the
\* created_at of a message of the thread, written by the call before
C25_Witness ==
    /\ cur.op = "createMessage" /\ cur.out = "returned"
    /\ last.op = "createMessage" /\ last.out = "returned"
    /\ \E th \in threads : \E m \in messages :
          /\ th.id = "t1" /\ m.thread_id = "t1"
          /\ m.id = last.l.messageId /\ m.id # cur.l.messageId
          /\ th.last_message_at < m.created_at

----------------------------------------------------------------------------
(* Properties of the force-load action, checked under SpecFormLoad.         *)

\* C26, as stated: when the timeout of 3 seconds fires the force-load action
\* is offered, and handleForceLoad leaves the local isLoading false and shows
\* the form, with the keys the store holds.
C26_ForceLoadShowsForm ==
    /\ [][loadingTimeout => (ui'.showForceLoad /\ (~ui'.storeError => View(ui') = "forceLoad"))]_vars
    /\ [][handleForceLoad =>
            /\ ~ui'.isLoading
            /\ View(ui') = "form"
            /\ ui'.fields = StoreKeys(ui')]_vars

\* C26, what the code gives: when the timeout of 3 seconds fires the
\* force-load action is offered (the error view going first), and
\* handleForceLoad leaves the local isLoading true and the offer off, so the
\* loading view is shown again, the fields holding the keys of the store.
C26_ForceLoadShowsLoading ==
    /\ [][loadingTimeout => (ui'.showForceLoad /\ (~ui'.storeError => View(ui') = "forceLoad"))]_vars
    /\ [][handleForceLoad =>
            /\ ui'.isLoading /\ ~ui'.showForceLoad
            /\ View(ui') = "loading"
            /\ ui'.fields = StoreKeys(ui')
            /\ ui'.toast = "API keys form loaded"]_vars

\* the button has been pressed and the loading view is back, the local
\* isLoading being true
C26_Witness ==
    /\ ui.mounted /\ ui.toast = "API keys form loaded"
    /\ ui.isLoading /\ View(ui) = "loading"

----------------------------------------------------------------------------
(* SpecSharing: one client creating and updating the shares of u1 and u2.   *)

MaxSharingCalls == 3

SharePasswords == {None, Some(NoText), Some(Pw)}

\* the updates given to updateSharedThread: a title, and a password or none
ShareUpdates ==
    {[title |-> Some("renamed"), description |-> None, is_public |-> None,
      password |-> pw, expires_at |-> None] : pw \in SharePasswords \cup {Some(Pw2)}}

NextSharing ==
    \/ /\ Started < MaxSharingCalls
       /\ \E u \in Users, pw \in SharePasswords, k \in ShareTokens :
             createSharedThread("p1", u, "t1", "title", None, None, pw, None, k)
    \/ /\ Started < MaxSharingCalls
       /\ \E u \in Users, id \in ShareIds, updates \in ShareUpdates :
             updateSharedThread("p1", u, id, updates, now)
    \/ createSharedThread_digest("p1")
    \/ \E id \in ShareIds : createSharedThread_insert("p1", NoError, id)
    \/ updateSharedThread_digest("p1")
    \/ updateSharedThread_update("p1", NoError)

SpecSharing == Init /\ [][NextSharing]_vars

\* the columns of the rows of shared_threads
ShareColumns ==
    {"id", "thread_id", "user_id", "share_token", "title", "description", "is_public",
     "password_hash", "expires_at", "updated_at"}

\* the password_hash a row is to hold for password pw: null (None) for none
\* or the empty one, else its digest
HashFor(pw) == IF pw \in {None, Some(NoText)} THEN None ELSE {hashPassword(x) : x \in pw}

\* the rows call c has added, changed or removed
TouchedShares(c) == (shares \ c.pre.shares) \cup (c.pre.shares \ shares)

\* C27: no row of shared_threads has a column password, and what
\* updateSharedThread sends has no key password; a row createSharedThread
\* has inserted holds the digest of the password given, or null when none
\* (or the empty one) was given; a row updateSharedThread has updated holds
\* the digest of the password given, null when the empty one was given, and
\* the hash it held when no password was given; and every row either call
\* adds or changes is, and was, a row of the caller.
C27_OnlyDigestStored ==
    /\ \A r \in shares : DOMAIN r = ShareColumns
    /\ (cur.op = "updateSharedThread" /\ cur.user # NoUser /\ cur.pc # "digest") =>
          cur.l.updateData.password = None
    /\ (cur.op = "createSharedThread" /\ cur.out = "returned") =>
          /\ cur.ret \in shares \ cur.pre.shares
          /\ cur.ret.password_hash = HashFor(cur.a.password)
    /\ (cur.op = "updateSharedThread" /\ cur.out = "returned") =>
          /\ cur.ret \in shares /\ cur.ret.id = cur.a.id
          /\ \E old \in cur.pre.shares :
                /\ old.id = cur.a.id /\ old.user_id = cur.user
                /\ cur.ret.password_hash =
                      IF cur.a.updates.password = None THEN old.password_hash
                      ELSE HashFor(cur.a.updates.password)
    /\ cur.op \in {"createSharedThread", "updateSharedThread"} =>
          /\ \A r \in TouchedShares(cur) : r.user_id = cur.user
          /\ cur.out # "returned" => shares = cur.pre.shares

\* the password of a share was replaced: the row holds the digest of the new
\* one
C27_Witness ==
    /\ cur.op = "updateSharedThread" /\ cur.out = "returned"
    /\ cur.a.updates.password = Some(Pw2)
    /\ \E old \in cur.pre.shares : old.id = cur.a.id /\ old.password_hash = HashFor(Some(Pw))
    /\ cur.ret.password_hash = {hashPassword(Pw2)}

\* the empty password has removed the hash
C27_WitnessRemoved ==
    /\ cur.op = "updateSharedThread" /\ cur.out = "returned"
    /\ cur.a.updates.password = Some(NoText)
    /\ \E old \in cur.pre.shares : old.id = cur.a.id /\ old.password_hash # None
    /\ cur.ret.password_hash = None

\* no password key: the hash stays
C27_WitnessKept ==
    /\ cur.op = "updateSharedThread" /\ cur.out = "returned"
    /\ cur.a.updates.password = None
    /\ cur.ret.password_hash = {hashPassword(Pw)} /\ cur.ret.title = "renamed"

\* the share of another user is not updated
C27_WitnessStranger ==
    /\ cur.op = "updateSharedThread" /\ cur.out = "threw" /\ cur.err = NotFound
    /\ \E r \in shares : r.id = cur.a.id /\ r.user_id # cur.user

----------------------------------------------------------------------------
(* SpecPrefs: two clients of user u1 and of user u2 saving preferences, u1  *)
(* also deleting them, their calls interleaved; the existence lookup fails  *)
(* or not, and the table is missing or not (missing, every query of the     *)
(* call says so).                                                           *)

MaxPrefsCalls == 3

\* the table is found missing by a call only while it holds no row
LookupErrors == IF prefs = {} THEN {NoError, StoreFault, TableMissing} ELSE {NoError, StoreFault}

\* the first query of client p's call found the table missing
FoundMissing(p) == Len(calls[p].log) > 0 /\ calls[p].log[1].error = TableMissing

NextPrefs ==
    \/ /\ Started < MaxPrefsCalls
       /\ \E p \in Procs, name \in {"Ann", "Bob"} :
             saveUserPreferences(p, "u1", [preferred_name |-> Some(name)])
    \/ /\ Started < MaxPrefsCalls
       /\ saveUserPreferences("p2", "u2", [preferred_name |-> Some("Cy")])
    \/ /\ Started < MaxPrefsCalls
       /\ \E p \in Procs : deleteUserPreferences(p, "u1")
    \/ \E p \in Procs, e \in LookupErrors : saveUserPreferences_select(p, e, now)
    \/ \E p \in Procs : saveUserPreferences_update(p, NoError)
    \/ \E p \in Procs, id \in PrefIds :
          saveUserPreferences_insert(p, IF FoundMissing(p) THEN TableMissing ELSE NoError, id)
    \/ \E p \in Procs : deleteUserPreferences_delete(p, NoError)

SpecPrefs == Init /\ [][NextPrefs]_vars

PrefsOf(u) == {r \in prefs : r.user_id = u}

\* the existence lookup of call c failed with a store error
PrefsLookupFailed(c) ==
    /\ c.op = "saveUserPreferences" /\ Len(c.log) > 0
    /\ c.log[1].error \notin {NoError, NotFound}

\* the queries call c has issued after the lookup
Writes(c, verb) == {i \in QueriesOn(c, verb, "user_preferences") : i > 1}

\* C28, as stated: saveUserPreferences issues an update when the user has a
\* row and an insert only when the user has none, and no user ever has more
\* than one row, whether or not the lookup fails and whether or not calls of
\* the user are interleaved; and a call that finds the table missing returns
\* null.
C28_AtMostOneRow ==
    /\ \A u \in Users : Cardinality(PrefsOf(u)) <= 1
    /\ \A p \in Procs :
          LET c == calls[p]
          IN c.op = "saveUserPreferences" =>
                /\ Writes(c, "insert") # {} =>
                      {r \in c.pre.prefs : r.user_id = c.user} = {}
                /\ (c.pc = "done" /\ FoundMissing(p)) => c.out = "returned" /\ c.ret = Null

\* C28, what the code gives: saveUserPreferences issues an update when its
\* lookup returned a row and an insert when it returned none, be it for an
\* error; a user has at most one row as long as no lookup has failed and one
\* client alone has called; and a call that finds the table missing returns
\* null.
C28_OneRowWhenLookedUpAlone ==
    /\ (/\ \A o \in Procs \ {"p1"} : calls[o].op = "idle"
        /\ ~PrefsLookupFailed(cur)
        /\ \A i \in DOMAIN hist : ~PrefsLookupFailed(hist[i])) =>
          \A u \in Users : Cardinality(PrefsOf(u)) <= 1
    /\ \A p \in Procs :
          LET c == calls[p]
          IN (c.op = "saveUserPreferences" /\ Len(c.log) > 0) =>
                /\ c.log[1].error = NoError => Writes(c, "insert") = {}
                /\ c.log[1].error # NoError => Writes(c, "update") = {}
                /\ (c.pc = "done" /\ FoundMissing(p)) => c.out = "returned" /\ c.ret = Null

\* the lookup of a call of u1, who had a row, failed, and u1 has two rows
C28_Witness ==
    \E p \in Procs :
        /\ calls[p].op = "saveUserPreferences" /\ calls[p].out = "returned"
        /\ calls[p].user = "u1" /\ calls[p].log[1].error = StoreFault
        /\ Cardinality({r \in calls[p].pre.prefs : r.user_id = "u1"}) = 1
        /\ Cardinality(PrefsOf("u1")) = 2

\* two calls of u1, no query failing: both found no row, and u1 has two
C28_WitnessInterleaved ==
    /\ \A p \in Procs : /\ calls[p].op = "saveUserPreferences" /\ calls[p].out = "returned"
                        /\ calls[p].user = "u1" /\ calls[p].log[1].error = NotFound
    /\ hist = <<>>
    /\ Cardinality(PrefsOf("u1")) = 2

\* the table is missing: null is returned
C28_WitnessNoTable ==
    /\ cur.op = "saveUserPreferences" /\ cur.out = "returned" /\ cur.ret = Null
    /\ cur.log[Len(cur.log)].error = TableMissing

----------------------------------------------------------------------------
(* SpecFiles: one client deleting attachments.  The store starts with two   *)
(* attachment rows of u1, one of an object of the bucket and one of a file  *)
(* elsewhere, and one row of u2, as createMessage writes them, and with the *)
(* object in the bucket.                                                    *)

MaxFilesCalls == 3

AttachmentRow(id, user, url) ==
    [id |-> id, message_id |-> M1, thread_id |-> "t1", user_id |-> user, file_url |-> url]

InitFiles ==
    /\ threads = {}
    /\ messages = {}
    /\ attachments = {AttachmentRow("a1", "u1", BucketUrl),
                      AttachmentRow("a3", "u1", "https://s/f1"),
                      AttachmentRow("a2", "u2", "https://s/f1")}
    /\ personas = <<>>
    /\ shares = {}
    /\ prefs = {}
    /\ files = {"f2"}
    /\ profiles = {}
    /\ ui = NoForm
    /\ now = 1
    /\ calls = [p \in Procs |-> Idle]
    /\ hist = <<>>

NextFiles ==
    \/ /\ Started < MaxFilesCalls
       /\ \E u \in Users, fileId \in {"a1", "a2", "a3", "a4"} :
             deleteFileAttachment("p1", u, fileId)
    \/ deleteFileAttachment_select("p1", NoError)
    \/ \E e \in Faults : deleteFileAttachment_remove("p1", e)
    \/ deleteFileAttachment_delete("p1", NoError)

SpecFiles == InitFiles /\ [][NextFiles]_vars

\* the rows of the caller of c with the id given, in a table
OwnAttachments(c, table) == {r \in table : r.id = c.a.fileId /\ r.user_id = c.user}

\* the removal from storage of call c has failed
RemoveFailed(c) ==
    \E i \in QueriesOn(c, "remove", "thread-files") : c.log[i].error # NoError

\* C29: a deleteFileAttachment call deletes the caller's attachment row with
\* the id given also when the removal of the object from storage has failed;
\* when the caller has no row with that id it throws the error of the
\* lookup and removes no object and no row; and the only row a call removes
\* is the caller's row with the id given.
C29_RecordDeletedDespiteStorage ==
    cur.op = "deleteFileAttachment" =>
        /\ (RemoveFailed(cur) /\ cur.pc = "done") =>
              /\ cur.out = "returned"
              /\ OwnAttachments(cur, cur.pre.attachments) # {}
              /\ OwnAttachments(cur, attachments) = {}
              /\ files = cur.pre.files
        /\ OwnAttachments(cur, cur.pre.attachments) = {} =>
              /\ cur.pc = "done" => cur.out = "threw" /\ cur.err = NotFound
              /\ Len(cur.log) <= 1
              /\ files = cur.pre.files
              /\ attachments = cur.pre.attachments
        /\ attachments \subseteq cur.pre.attachments
        /\ cur.pre.attachments \ attachments \subseteq OwnAttachments(cur, cur.pre.attachments)
        /\ cur.out = "returned" => OwnAttachments(cur, attachments) = {}

\* the removal of the object failed; the row is gone, the object is there,
\* and the other rows are there
C29_Witness ==
    /\ cur.op = "deleteFileAttachment" /\ cur.out = "returned" /\ RemoveFailed(cur)
    /\ cur.a.fileId = "a1" /\ files = {"f2"}
    /\ {r.id : r \in attachments} = {"a2", "a3"}

\* u1 gives the id of a row of u2
C29_WitnessStranger ==
    /\ cur.op = "deleteFileAttachment" /\ cur.out = "threw" /\ cur.err = NotFound
    /\ cur.user = "u1" /\ cur.a.fileId = "a2"
    /\ \E r \in attachments : r.id = "a2"

\* the object and the row are removed
C29_WitnessRemoved ==
    /\ cur.op = "deleteFileAttachment" /\ cur.out = "returned" /\ ~RemoveFailed(cur)
    /\ cur.a.fileId = "a1" /\ files = {}

----------------------------------------------------------------------------
(* SpecUpdateFault: client p1 edits stored messages, every query of the     *)
(* store failing or not, while client p2 edits message M1 too or deletes    *)
(* the thread.  The store starts as for SpecUpdate.                         *)

MaxUpdateFaultCalls == 2

NextUpdateFault ==
    \/ /\ Started < MaxUpdateFaultCalls
       /\ \E in \in UpdateCalls : updateMessageInDatabase("p1", in[1], in[2], "edited")
    \/ /\ Started < MaxUpdateFaultCalls
       /\ updateMessageInDatabase("p2", "u1", M1, "other")
    \/ /\ Started < MaxUpdateFaultCalls
       /\ deleteThread("p2", "u1", "t1")
    \/ \E p \in Procs, e \in Faults : updateMessageInDatabase_check(p, e, now)
    \/ \E p \in Procs, e \in Faults : updateMessageInDatabase_thread_check(p, e, now)
    \/ \E p \in Procs, e \in Faults : updateMessageInDatabase_update_own(p, e)
    \/ \E p \in Procs, e \in Faults : updateMessageInDatabase_update_thread(p, e)
    \/ \E p \in Procs, e \in Faults : updateMessageInDatabase_verify(p, e)
    \/ updateMessageInDatabase_rejects("p1")
    \/ deleteThread_delete("p2", NoError)

SpecUpdateFault == InitUpdate /\ [][NextUpdateFault]_vars

\* a query of call c has failed or thrown
QueryFailed(c) == \E i \in DOMAIN c.log : c.log[i].error # NoError

\* the call has ended on a query that did not fail
EndedAfter(c, verb, table) ==
    /\ c.pc = "done" /\ Len(c.log) > 0
    /\ c.log[Len(c.log)] = Q(verb, table, NoError)

\* C30: updateMessageInDatabase never throws; it returns false when there is
\* no user, when a query has failed or thrown, when the message is neither
\* the caller's nor an assistant's (the call ends on the lookup), when the
\* update has changed no row (the call ends on the update), and when the
\* re-read finds other content; and it returns true only after a lookup, an
\* update that changed a row and a re-read, none failing, the re-read finding
\* the new content.
C30_NeverThrows ==
    /\ [](\A p \in Procs :
            LET c == calls[p]
            IN c.op = "updateMessageInDatabase" =>
                  /\ c.out # "threw"
                  /\ c.pc = "done" => c.out = "returned" /\ c.ret \in BOOLEAN
                  /\ c.user = NoUser => c.pc = "done" /\ c.ret = FALSE /\ c.log = <<>>
                  /\ QueryFailed(c) => c.pc = "done" /\ c.ret = FALSE
                  /\ EndedAfter(c, "update", "messages") => c.ret = FALSE
                  /\ (EndedAfter(c, "select", "messages") /\ Len(c.log) = 1) => c.ret = FALSE
                  /\ ReturnedTrue(c) =>
                        /\ ~QueryFailed(c) /\ c.user # NoUser
                        /\ Len(c.log) \in {3, 4}
                        /\ c.log[1] = Q("select", "messages", NoError)
                        /\ c.log[Len(c.log) - 1] = Q("update", "messages", NoError)
                        /\ c.log[Len(c.log)] = Q("select", "messages", NoError)
                        /\ c.l.updatedData # {})
    /\ [][\A p \in Procs : Rereads(p) =>
            (calls'[p].ret = TRUE <=>
                /\ calls'[p].log[Len(calls'[p].log)].error = NoError
                /\ \E r \in messages : r.id = calls[p].a.messageId
                                        /\ r.content = calls[p].a.newContent)]_vars

\* a store call has thrown after the update: false is returned, the row
\* holding the new content
C30_Witness ==
    /\ cur.op = "updateMessageInDatabase" /\ cur.pc = "done" /\ cur.ret = FALSE
    /\ Len(cur.log) = 3 /\ cur.log[3].error = Rejected
    /\ \E r \in messages : r.id = cur.a.messageId /\ r.content = "edited"

\* the update has changed no row: the thread was deleted after the lookup
C30_WitnessNoRow ==
    /\ cur.op = "updateMessageInDatabase" /\ EndedAfter(cur, "update", "messages")
    /\ cur.ret = FALSE

\* the re-read has found the content of another writer
C30_WitnessMismatch ==
    /\ cur.op = "updateMessageInDatabase" /\ cur.pc = "done" /\ cur.ret = FALSE
    /\ Len(cur.log) = 3 /\ ~QueryFailed(cur)
    /\ \E r \in messages : r.id = cur.a.messageId /\ r.content = "other"

\* permission denied: a message of another user that is not an assistant's
C30_WitnessDenied ==
    /\ cur.op = "updateMessageInDatabase" /\ EndedAfter(cur, "select", "messages")
    /\ Len(cur.log) = 1 /\ cur.ret = FALSE /\ cur.user = "u2" /\ cur.a.messageId = M3

\* a verified update
C30_WitnessTrue ==
    ReturnedTrue(cur) /\ cur.a.messageId = M4

====
